---------------------------- MODULE Spec2Model ----------------------------
(***************************************************************************)
(* PurpleSky: the comment sort of the post page, the feed page's sort      *)
(* task, the consensus page and the ranking / consensus engine they call.  *)
(*                                                                         *)
(* Numbers are JavaScript numbers restricted to the rationals: a value is  *)
(* a record [num, den] in lowest terms with den > 0, or one of the three   *)
(* non-finite values NaN = 0/0, Infinity = 1/0, -Infinity = -1/0.          *)
(* Rounding of binary floating point is not modelled.                      *)
(***************************************************************************)
EXTENDS Integers, Sequences, FiniteSets, TLC

(***************************************************************************)
(* Bounds of the model.                                                    *)
(***************************************************************************)
MaxCount == 2          \* like / downvote counts range over 0..MaxCount
MaxTime == 2           \* createdAt instants range over 1..MaxTime (0: absent)

\* Post URIs of the generated inputs; the worked examples also use "c"
Uris == {"a", "b"}

\* Lexicographic rank of a URI
UriRank(u) == IF u = "" THEN 0 ELSE IF u = "a" THEN 1 ELSE IF u = "b" THEN 2 ELSE 3

(***************************************************************************)
(* JavaScript numbers.                                                     *)
(***************************************************************************)
AbsInt(i) == IF i < 0 THEN 0 - i ELSE i

SignInt(i) == IF i < 0 THEN 0 - 1 ELSE IF i > 0 THEN 1 ELSE 0

RECURSIVE GCD(_, _)
GCD(a, b) == IF b = 0 THEN a ELSE GCD(b, a % b)

NaN == [num |-> 0, den |-> 0]

Inf(s) == [num |-> s, den |-> 0]

IsFinite(x) == x.den # 0

IsNaN(x) == x.den = 0 /\ x.num = 0

\* n/d for d # 0, in lowest terms with a positive denominator
Norm(n, d) ==
  LET g == GCD(AbsInt(n), AbsInt(d))
      s == SignInt(d)
  IN  [num |-> (s * n) \div g, den |-> (s * d) \div g]

Num(i) == [num |-> i, den |-> 1]

NumSign(x) == SignInt(x.num)

\* JavaScript a / b
Div(a, b) ==
  IF IsNaN(a) \/ IsNaN(b) THEN NaN
  ELSE IF ~IsFinite(a)
    THEN IF ~IsFinite(b) THEN NaN
         ELSE Inf(NumSign(a) * (IF NumSign(b) < 0 THEN 0 - 1 ELSE 1))
  ELSE IF ~IsFinite(b) THEN Num(0)
  ELSE IF b.num = 0
    THEN IF a.num = 0 THEN NaN ELSE Inf(NumSign(a))
  ELSE Norm(a.num * b.den, a.den * b.num)

\* JavaScript a * b
Mul(a, b) ==
  IF IsNaN(a) \/ IsNaN(b) THEN NaN
  ELSE IF ~IsFinite(a) \/ ~IsFinite(b)
    THEN IF NumSign(a) * NumSign(b) = 0 THEN NaN
         ELSE Inf(NumSign(a) * NumSign(b))
  ELSE Norm(a.num * b.num, a.den * b.den)

\* JavaScript a - b
Sub(a, b) ==
  IF IsNaN(a) \/ IsNaN(b) THEN NaN
  ELSE IF ~IsFinite(a)
    THEN IF ~IsFinite(b) /\ NumSign(a) = NumSign(b) THEN NaN ELSE a
  ELSE IF ~IsFinite(b) THEN Inf(0 - NumSign(b))
  ELSE Norm(a.num * b.den - b.num * a.den, a.den * b.den)

\* Math.abs
Abs(x) == [num |-> AbsInt(x.num), den |-> x.den]

\* a < b on numbers; false when either is NaN
Less(a, b) == ~IsNaN(a) /\ ~IsNaN(b) /\ NumSign(Sub(a, b)) < 0

\* The sign Array.prototype.sort reads off a comparator's result: NaN counts as 0
CmpSign(x) == IF IsNaN(x) THEN 0 ELSE NumSign(x)

(***************************************************************************)
(* State.                                                                  *)
(***************************************************************************)
VARIABLES
  route,                \* the page component that is mounted
  \* post page (routes/post/[uri])
  loading,              \* loading signal
  postFound,            \* post signal is non-null
  thread,               \* thread.value.replies: the root's reply nodes
  replyDownvoteCounts,  \* Record<uri, number>: a function on a subset of Uris
  commentSortMode,      \* 'newest' | 'oldest' | 'best' | 'controversial'
  flattenedReplies,     \* what the last render computed: <<[uri, depth], ...>>
  \* feed page (the second component of routes/forum/[id]/index.tsx)
  timeline,             \* what the feed service holds: [first, more]
  feedItems,            \* feed.items
  sortMode,             \* 'newest' | 'trending' | 'wilson' | 'controversial'
  seenPosts,            \* Set<string> in insertion order
  hideSeenPosts,        \* app.hideSeenPosts
  seenStorage,          \* localStorage 'purplesky-seen-posts'
  downvoteCounts,       \* Record<uri, number>: a function on a set of URIs
  sortedDisplayItems,   \* what the sort task last published
  fetchTask,            \* the downvote-count task: [pc, dirty]
  sortTask,             \* the sort task: [pc, dirty, filtered, sortable]
  \* consensus page (routes/consensus)
  statements,           \* the statements store: <<[id, myVote], ...>>
  result,               \* result signal: <<>> is null, <<r>> a ConsensusResult
  analyses,             \* analyze() calls in flight: the votes each one sends
  \* the engine called directly
  engItems,             \* items handed to rank
  engStrategy,          \* strategy name of the last rank call, "" before it
  engResult,            \* what the last rank call returned
  voteEvents,           \* vote events received so far
  analysis,             \* analyzeConsensus(voteEvents)
  \* service worker (public/sw.js)
  traffic,              \* the requests the pages of this run issue
  caches,               \* CacheStorage: cache name -> (URL -> stored response)
  clock,                \* Date.now() of the worker's host, in ms
  handled,              \* the last fetch event and the worker's answer to it
  \* layout (routes/layout.tsx)
  session,              \* store.session: [did, handle, avatar, isLoggedIn], "" for null
  accounts,             \* the DIDs lib/bsky holds an OAuth session for, in order
  otherAccounts,        \* otherAccounts signal: the DIDs of the account switcher
  accountMenuOpen,      \* accountMenuOpen signal
  logout,               \* onLogout: [pc, currentDid]
  \* layout (routes/layout.tsx): the global toast
  cardViewMode,         \* store.cardViewMode
  nsfwMode,             \* store.nsfwMode
  mediaOnly,            \* store.mediaOnly
  toastMessage,         \* store.toastMessage, "" for null
  toastTask,            \* the auto-dismiss task: TRUE when it has to run again
  toastTimer,           \* ms left on the pending setTimeout of the task, NoTimer when none
  toastAge,             \* ms since store.toastMessage changed last, up to TOAST_MS
  toasts,               \* count of clicks on the toggles
  \* layout (routes/layout.tsx): scroll position preservation
  location,             \* location.pathname + location.search
  scrollMap,            \* sessionStorage 'purplesky-scroll-positions', 0 for no entry
  scrollY,              \* window.scrollY
  mainHidden,           \* #main-content has style.visibility = 'hidden'
  navTask,              \* the navigation-tracking task: TRUE when it has to run again
  restores,             \* the restore chains under way: [id, from, target, pc, attempts]
  navs                  \* count of navigations

postVars ==
  <<loading, postFound, thread, replyDownvoteCounts, commentSortMode,
    flattenedReplies>>

feedVars ==
  <<timeline, feedItems, sortMode, seenPosts, hideSeenPosts, seenStorage, downvoteCounts,
    sortedDisplayItems, fetchTask, sortTask>>

consensusVars == <<statements, result, analyses>>

engineVars == <<engItems, engStrategy, engResult, voteEvents, analysis>>

workerVars == <<traffic, caches, clock, handled>>

accountVars == <<session, accounts, otherAccounts, accountMenuOpen, logout>>

toastVars == <<cardViewMode, nsfwMode, mediaOnly, toastMessage, toastTask, toastTimer,
               toastAge, toasts>>

scrollVars == <<location, scrollMap, scrollY, mainHidden, navTask, restores, navs>>

vars == <<route, postVars, feedVars, consensusVars, engineVars, workerVars, accountVars,
          toastVars, scrollVars>>

(***************************************************************************)
(* Post page: comment sort (routes/post/[uri]/index.tsx).                  *)
(* A reply node is [uri, createdAt, likeCount, replies]; uri = "" is a     *)
(* node without a post (a blocked or deleted reply), createdAt = 0 is a    *)
(* record without createdAt (getCreated gives '').                         *)
(***************************************************************************)
CommentSortModes == {"newest", "oldest", "best", "controversial"}

Node(u, t, l, r) == [uri |-> u, createdAt |-> t, likeCount |-> l, replies |-> r]

\* downvoteCounts[uri] ?? 0
DownvotesOf(counts, uri) == IF uri \in DOMAIN counts THEN counts[uri] ELSE 0

\* a.localeCompare(b) on createdAt strings of one format: the order of the instants
LocaleCompare(a, b) == SignInt(a - b)

getCreated(n) == IF n.uri = "" THEN 0 ELSE n.createdAt

getScore(n, counts) ==
  Sub(Num(IF n.uri = "" THEN 0 ELSE n.likeCount),
      Num(IF n.uri = "" THEN 0 ELSE DownvotesOf(counts, n.uri)))

\* getControversy with the factor 2 of the distance from an even split left out
getControversyHalf(n, counts) ==
  IF n.uri = "" THEN Num(0)
  ELSE LET likes == n.likeCount
           downs == DownvotesOf(counts, n.uri)
           total == likes + downs
       IN  IF total = 0 THEN Num(0)
           ELSE LET ratio == Div(Num(likes), Num(total))
                IN  Mul(Num(total), Sub(Num(1), Abs(Sub(ratio, Div(Num(1), Num(2))))))

\* getControversy that scores the volume alone
getControversyVolume(n, counts) ==
  IF n.uri = "" THEN Num(0) ELSE Num(n.likeCount + DownvotesOf(counts, n.uri))

\* getControversy without the early return for a reply nobody voted on
getControversyUnguarded(n, counts) ==
  IF n.uri = "" THEN Num(0)
  ELSE LET likes == n.likeCount
           downs == DownvotesOf(counts, n.uri)
           total == likes + downs
           ratio == Div(Num(likes), Num(total))
       IN  Mul(Num(total), Sub(Num(1), Mul(Num(2), Abs(Sub(ratio, Div(Num(1), Num(2)))))))

getControversy(n, counts) ==
  IF n.uri = "" THEN Num(0)
  ELSE LET likes == n.likeCount
           downs == DownvotesOf(counts, n.uri)
           total == likes + downs
       IN  IF total = 0 THEN Num(0)
           ELSE LET ratio == Div(Num(likes), Num(total))
                IN  Mul(Num(total),
                        Sub(Num(1), Mul(Num(2), Abs(Sub(ratio, Div(Num(1), Num(2)))))))

\* The comparator handed to Array.prototype.sort, reduced to its sign
sortComparator(mode, counts, a, b) ==
  IF mode = "newest" THEN LocaleCompare(getCreated(b), getCreated(a))
  ELSE IF mode = "oldest" THEN LocaleCompare(getCreated(a), getCreated(b))
  ELSE IF mode = "best" THEN CmpSign(Sub(getScore(b, counts), getScore(a, counts)))
  ELSE IF mode = "controversial"
    THEN CmpSign(Sub(getControversy(b, counts), getControversy(a, counts)))
  ELSE 0

\* An unstable sort: x goes before the elements it ties with
RECURSIVE SortInsertUnstable(_, _, _, _)
SortInsertUnstable(sorted, x, mode, counts) ==
  IF sorted = <<>> THEN <<x>>
  ELSE IF sortComparator(mode, counts, sorted[Len(sorted)], x) >= 0
    THEN Append(SortInsertUnstable(SubSeq(sorted, 1, Len(sorted) - 1), x, mode, counts),
                sorted[Len(sorted)])
  ELSE Append(sorted, x)

\* Array.prototype.sort is stable: x goes behind every element it does not precede
RECURSIVE SortInsert(_, _, _, _)
SortInsert(sorted, x, mode, counts) ==
  IF sorted = <<>> THEN <<x>>
  ELSE IF sortComparator(mode, counts, sorted[Len(sorted)], x) > 0
    THEN Append(SortInsert(SubSeq(sorted, 1, Len(sorted) - 1), x, mode, counts),
                sorted[Len(sorted)])
  ELSE Append(sorted, x)

RECURSIVE SortFrom(_, _, _, _)
SortFrom(sorted, rest, mode, counts) ==
  IF rest = <<>> THEN sorted
  ELSE SortFrom(SortInsert(sorted, Head(rest), mode, counts), Tail(rest), mode, counts)

sortNodes(nodes, mode, counts) == SortFrom(<<>>, nodes, mode, counts)

RECURSIVE walk(_, _, _, _)
RECURSIVE walkSorted(_, _, _, _)
walkSorted(sorted, depth, mode, counts) ==
  IF sorted = <<>> THEN <<>>
  ELSE <<[uri |-> Head(sorted).uri, depth |-> depth]>>
       \o walk(Head(sorted).replies, depth + 1, mode, counts)
       \o walkSorted(Tail(sorted), depth, mode, counts)

walk(nodes, depth, mode, counts) ==
  IF nodes = <<>> THEN <<>>
  ELSE walkSorted(sortNodes(SelectSeq(nodes, LAMBDA n : n.uri # ""), mode, counts),
                  depth, mode, counts)

\* The component body: a spinner or "Post not found" renders no replies
Render(isLoading, found, nodes, mode, counts) ==
  IF isLoading \/ ~found THEN <<>> ELSE walk(nodes, 0, mode, counts)

(***************************************************************************)
(* Inputs of the post page: the threads getPostThread can return.          *)
(***************************************************************************)
\* Sequences of distinct reply URIs
UriSeqs ==
  UNION { { us \in [1..n -> Uris] : \A i, j \in 1..n : i # j => us[i] # us[j] } :
          n \in 0..Cardinality(Uris) }

\* Every flat list of replies with counts and instants in bounds
FlatThreads ==
  UNION { { [i \in 1..Len(us) |-> Node(us[i], t[i], l[i], <<>>)] :
              t \in [1..Len(us) -> 0..MaxTime], l \in [1..Len(us) -> 0..MaxCount] } :
          us \in UriSeqs }

\* Threads with nested replies and with a reply whose post is missing
NestedThreads ==
  { <<Node("a", 1, 0, <<Node("c", 1, 1, <<>>), Node("b", 1, 1, <<>>)>>)>>,
    <<Node("b", 0, 1, <<Node("c", 1, 0, <<Node("a", 0, 0, <<>>)>>)>>)>>,
    <<Node("", 0, 0, <<>>), Node("c", 1, 1, <<Node("a", 1, 0, <<>>)>>), Node("b", 1, 1, <<>>)>> }

\* Worked examples, each a thread with its downvote counts: a skewed, a split
\* and a larger split reply; two replies whose net score and whose share of
\* likes order them differently
Examples ==
  { [thread |-> <<Node("a", 1, 19, <<>>), Node("b", 1, 10, <<>>), Node("c", 1, 1000, <<>>)>>,
     counts |-> [u \in {"a", "b", "c"} |-> IF u = "a" THEN 1 ELSE IF u = "b" THEN 10 ELSE 1000]],
    [thread |-> <<Node("a", 1, 5, <<>>), Node("b", 1, 3, <<>>)>>,
     counts |-> [u \in {"a"} |-> 1]] }

ReplyThreads == FlatThreads \cup NestedThreads

\* getDownvoteCounts: a count for some of the URIs asked for
DownvoteRecords == UNION { [D -> 0..MaxCount] : D \in SUBSET Uris }

RECURSIVE ThreadUris(_)
ThreadUris(nodes) ==
  IF nodes = <<>> THEN {}
  ELSE (IF Head(nodes).uri = "" THEN {} ELSE {Head(nodes).uri})
       \cup ThreadUris(Head(nodes).replies) \cup ThreadUris(Tail(nodes))

(***************************************************************************)
(* Ranking engine (lib/wasm-bridge: sortByNewest, sortByTrending,          *)
(* sortByWilsonScore, sortByControversial), after sections 4.1 and 4.2 of  *)
(* the specification.  A sortable item is                                  *)
(* [uri, created_at, like_count, downvote_count, reply_count, repost_count]*)
(* with created_at in hours.                                               *)
(***************************************************************************)
Strategies == {"newest", "trending", "wilson", "controversial"}

\* floor(k * m / n) for n > 0 without forming k * m
MulDivFloor(k, m, n) == (k \div n) * m + ((k % n) * m) \div n

\* floor(sqrt(x)) by bisection on lo..hi, lo * lo <= x < (hi + 1) * (hi + 1)
RECURSIVE IsqrtIn(_, _, _)
IsqrtIn(x, lo, hi) ==
  IF lo = hi THEN lo
  ELSE LET mid == (lo + hi + 1) \div 2
       IN  IF mid * mid <= x THEN IsqrtIn(x, mid, hi) ELSE IsqrtIn(x, lo, mid - 1)

Isqrt(x) == IsqrtIn(x, 0, 46340)

\* floor(a * 10^digits / d) for 0 <= a, 0 < d, by long division
RECURSIVE LongDiv(_, _, _, _)
LongDiv(q, r, d, digits) ==
  IF digits = 0 THEN q
  ELSE LongDiv(10 * q + (10 * r) \div d, (10 * r) % d, d, digits - 1)

DivMicro(a, d) == LongDiv(a \div d, a % d, d, 6)

\* (a * 10^digits) % d
RECURSIVE LongRem(_, _, _)
LongRem(r, d, digits) == IF digits = 0 THEN r ELSE LongRem((10 * r) % d, d, digits - 1)

RemMicro(a, d) == LongRem(a % d, d, 6)

\* The counts for which the bounds below stay within 32-bit integers
WilsonInRange(likes, downs) == likes * downs <= 4 * (likes + downs)

\* WilsonParts with likes and downvotes taken for each other
WilsonPartsSwapped(likes, downs) ==
  LET n == likes + downs
      under == MulDivFloor(384160000, likes * downs, n) + 368947264
      root == Isqrt(under)
      exact == root * root = under /\ ((384160000 % n) * (likes * downs)) % n = 0
  IN  [hi |-> 10000 * downs + 19208 - root,
       lo |-> IF exact THEN 10000 * downs + 19208 - root
              ELSE 10000 * downs + 19208 - root - 1,
       den |-> 10000 * n + 38416,
       exact |-> exact]

\* z = 1.96: z^2 / 2 = 1.9208, z^2 = 3.8416, z^4 / 4 = 3.68947264, in units of
\* 1e-4 (numerator and denominator) and 1e-8 (under the root)
WilsonParts(likes, downs) ==
  LET n == likes + downs
      under == MulDivFloor(384160000, likes * downs, n) + 368947264
      root == Isqrt(under)
      exact == root * root = under /\ ((384160000 % n) * (likes * downs)) % n = 0
  IN  [hi |-> 10000 * likes + 19208 - root,
       lo |-> IF exact THEN 10000 * likes + 19208 - root
              ELSE 10000 * likes + 19208 - root - 1,
       den |-> 10000 * n + 38416,
       exact |-> exact]

\* Bounds, in millionths, of the Wilson lower bound
\*   (p + z^2/2n - z sqrt((p(1-p) + z^2/4n)/n)) / (1 + z^2/n),  p = likes/n,
\* which is (likes + z^2/2 - sqrt(z^2 likes downs / n + z^4/4)) / (n + z^2)
WilsonLo(likes, downs) ==
  IF likes + downs = 0 THEN 0
  ELSE LET w == WilsonParts(likes, downs)
       IN  IF w.lo <= 0 THEN 0 ELSE DivMicro(w.lo, w.den)

WilsonHi(likes, downs) ==
  IF likes + downs = 0 THEN 0
  ELSE LET w == WilsonParts(likes, downs)
       IN  IF w.hi <= 0 THEN 0
           ELSE IF w.exact /\ RemMicro(w.hi, w.den) = 0 THEN DivMicro(w.hi, w.den)
           ELSE DivMicro(w.hi, w.den) + 1

\* Sign of wilson(x) - wilson(y); bounds that overlap are one score
WilsonCompare(x, y) ==
  IF WilsonLo(x.like_count, x.downvote_count) > WilsonHi(y.like_count, y.downvote_count)
    THEN 1
  ELSE IF WilsonHi(x.like_count, x.downvote_count) < WilsonLo(y.like_count, y.downvote_count)
    THEN 0 - 1
  ELSE 0

\* total * (1 - 2 |likes/total - 0.5|), 0 when there are no votes
ControversialScore(x) ==
  LET total == x.like_count + x.downvote_count
  IN  IF total = 0 THEN Num(0)
      ELSE Mul(Num(total),
               Sub(Num(1), Mul(Num(2), Abs(Sub(Div(Num(x.like_count), Num(total)),
                                               Div(Num(1), Num(2)))))))

\* The hour rank is called at
NowHours == MaxTime + 1

Engagement(x) == x.like_count - x.downvote_count + x.reply_count + x.repost_count

AgeHours(x) == IF NowHours - x.created_at < 0 THEN 0 ELSE NowHours - x.created_at

\* Sign of trending(x) - trending(y), trending = engagement / (age + 2)^1.5:
\* the sign of ex * sqrt(cy) - ey * sqrt(cx) with c = (age + 2)^3
TrendingCompare(x, y) ==
  LET ex == Engagement(x)
      ey == Engagement(y)
      cx == (AgeHours(x) + 2) * (AgeHours(x) + 2) * (AgeHours(x) + 2)
      cy == (AgeHours(y) + 2) * (AgeHours(y) + 2) * (AgeHours(y) + 2)
  IN  IF SignInt(ex) # SignInt(ey) THEN SignInt(SignInt(ex) - SignInt(ey))
      ELSE SignInt(ex) * SignInt(ex * ex * cy - ey * ey * cx)

\* Sign of score(x) - score(y) under a strategy
ScoreCompare(strategy, x, y) ==
  IF strategy = "newest" THEN SignInt(x.created_at - y.created_at)
  ELSE IF strategy = "trending" THEN TrendingCompare(x, y)
  ELSE IF strategy = "wilson" THEN WilsonCompare(x, y)
  ELSE CmpSign(Sub(ControversialScore(x), ControversialScore(y)))

\* Negative when x ranks before y: score descending, then id ascending
rankComparator(strategy, x, y) ==
  IF ScoreCompare(strategy, x, y) # 0 THEN 0 - ScoreCompare(strategy, x, y)
  ELSE SignInt(UriRank(x.uri) - UriRank(y.uri))

RECURSIVE RankInsert(_, _, _)
RankInsert(sorted, x, strategy) ==
  IF sorted = <<>> THEN <<x>>
  ELSE IF rankComparator(strategy, sorted[Len(sorted)], x) > 0
    THEN Append(RankInsert(SubSeq(sorted, 1, Len(sorted) - 1), x, strategy),
                sorted[Len(sorted)])
  ELSE Append(sorted, x)

RECURSIVE RankFrom(_, _, _)
RankFrom(sorted, rest, strategy) ==
  IF rest = <<>> THEN sorted
  ELSE RankFrom(RankInsert(sorted, Head(rest), strategy), Tail(rest), strategy)

\* rank(items, strategy): the items in the strategy's order, or a rejected call
rank(items, strategy) ==
  IF strategy \in Strategies
    THEN [rejected |-> FALSE, order |-> RankFrom(<<>>, items, strategy)]
  ELSE [rejected |-> TRUE, order |-> <<>>]

sortByNewest(items) == rank(items, "newest").order

sortByTrending(items) == rank(items, "trending").order

sortByWilsonScore(items) == rank(items, "wilson").order

sortByControversial(items) == rank(items, "controversial").order

(***************************************************************************)
(* Post page: state and handlers.                                          *)
(***************************************************************************)
Routes == {"post", "feed", "consensus"}

PostInit ==
  /\ loading = TRUE
  /\ postFound = FALSE
  /\ thread = <<>>
  /\ replyDownvoteCounts = <<>>
  /\ commentSortMode = "best"
  /\ flattenedReplies = <<>>

\* useVisibleTask$: getPostThread answered, then getDownvoteCounts answered or failed
LoadPost ==
  /\ route = "post" /\ loading
  /\ \E t \in ReplyThreads :
       \E counts \in {<<>>} \cup { c \in DownvoteRecords : DOMAIN c \subseteq ThreadUris(t) } :
         /\ thread' = t
         /\ postFound' = TRUE
         /\ replyDownvoteCounts' = counts
         /\ loading' = FALSE
         /\ flattenedReplies' = Render(FALSE, TRUE, t, commentSortMode, counts)
  /\ UNCHANGED <<route, commentSortMode>>

\* useVisibleTask$: one of the worked examples is the thread
LoadExample ==
  /\ route = "post" /\ loading
  /\ \E e \in Examples :
       /\ thread' = e.thread
       /\ postFound' = TRUE
       /\ replyDownvoteCounts' = e.counts
       /\ loading' = FALSE
       /\ flattenedReplies' = Render(FALSE, TRUE, e.thread, commentSortMode, e.counts)
  /\ UNCHANGED <<route, commentSortMode>>

\* useVisibleTask$: getPostThread failed, or the thread holds no post
LoadPostFailed ==
  /\ route = "post" /\ loading
  /\ loading' = FALSE
  /\ flattenedReplies' = Render(FALSE, postFound, thread, commentSortMode, replyDownvoteCounts)
  /\ UNCHANGED <<route, postFound, thread, replyDownvoteCounts, commentSortMode>>

\* The sort select, rendered once there are replies
SetCommentSortMode(m) ==
  /\ route = "post" /\ flattenedReplies # <<>>
  /\ m # commentSortMode
  /\ commentSortMode' = m
  /\ flattenedReplies' = Render(loading, postFound, thread, m, replyDownvoteCounts)
  /\ UNCHANGED <<route, loading, postFound, thread, replyDownvoteCounts>>

SetCount(counts, uri, v) ==
  [u \in DOMAIN counts \cup {uri} |-> IF u = uri THEN v ELSE counts[u]]

\* ActionBar onDownvote$ of a displayed reply
OnDownvote(i) ==
  /\ route = "post" /\ i \in 1..Len(flattenedReplies)
  /\ LET uri == flattenedReplies[i].uri
         next == SetCount(replyDownvoteCounts, uri,
                          DownvotesOf(replyDownvoteCounts, uri) + 1)
     IN  /\ DownvotesOf(replyDownvoteCounts, uri) < MaxCount
         /\ replyDownvoteCounts' = next
         /\ flattenedReplies' = Render(loading, postFound, thread, commentSortMode, next)
  /\ UNCHANGED <<route, loading, postFound, thread, commentSortMode>>

\* ActionBar onUndoDownvote$ of a displayed reply
OnUndoDownvote(i) ==
  /\ route = "post" /\ i \in 1..Len(flattenedReplies)
  /\ LET uri == flattenedReplies[i].uri
         old == DownvotesOf(replyDownvoteCounts, uri)
         next == SetCount(replyDownvoteCounts, uri, IF old - 1 > 0 THEN old - 1 ELSE 0)
     IN  /\ old <= MaxCount
         /\ replyDownvoteCounts' = next
         /\ flattenedReplies' = Render(loading, postFound, thread, commentSortMode, next)
  /\ UNCHANGED <<route, loading, postFound, thread, commentSortMode>>

\* handleReply: the reply is posted and the thread fetched again, now with the reply
HandleReply ==
  /\ route = "post" /\ ~loading /\ postFound
  /\ \E u \in Uris \ ThreadUris(thread), t \in 0..MaxTime :
       LET fetched == Append(thread, Node(u, t, 0, <<>>))
       IN  /\ thread' = fetched
           /\ flattenedReplies' =
                Render(loading, postFound, fetched, commentSortMode, replyDownvoteCounts)
  /\ UNCHANGED <<route, loading, postFound, replyDownvoteCounts, commentSortMode>>

(***************************************************************************)
(* Consensus analyzer (lib/wasm-bridge: analyzeConsensus), after sections  *)
(* 4.3 and 4.4 of the specification.  A vote event is                      *)
(* [user_id, statement_id, value] with value 1 (agree), -1 (disagree) or   *)
(* 0 (pass).  The statistics of the result are keyed by statement id.      *)
(***************************************************************************)
VoteValues == {1, 0 - 1, 0}

VoteEvent(u, s, v) == [user_id |-> u, statement_id |-> s, value |-> v]

\* The vote matrix with the first vote of a (participant, statement) pair kept
RECURSIVE VoteMatrixFirstWins(_)
VoteMatrixFirstWins(events) ==
  IF events = <<>> THEN <<>>
  ELSE LET m == VoteMatrixFirstWins(SubSeq(events, 1, Len(events) - 1))
           e == events[Len(events)]
           cell == <<e.user_id, e.statement_id>>
       IN  [c \in DOMAIN m \cup {cell} |-> IF c \in DOMAIN m THEN m[c] ELSE e.value]

\* The vote matrix: one vote per (participant, statement), the last one received
RECURSIVE VoteMatrix(_)
VoteMatrix(events) ==
  IF events = <<>> THEN <<>>
  ELSE LET m == VoteMatrix(SubSeq(events, 1, Len(events) - 1))
           e == events[Len(events)]
           cell == <<e.user_id, e.statement_id>>
       IN  [c \in DOMAIN m \cup {cell} |-> IF c = cell THEN e.value ELSE m[c]]

Participants(m) == { c[1] : c \in DOMAIN m }

StatementIds(m) == { c[2] : c \in DOMAIN m }

CountVotes(m, s, v) == Cardinality({ c \in DOMAIN m : c[2] = s /\ m[c] = v })

AgreementRatio(agree, disagree) ==
  IF agree + disagree > 0 THEN Div(Num(agree), Num(agree + disagree)) ELSE Num(0)

Divisiveness(agree, disagree) ==
  IF agree + disagree > 0
    THEN Sub(Num(1), Mul(Num(2), Abs(Sub(AgreementRatio(agree, disagree),
                                         Div(Num(1), Num(2))))))
  ELSE Num(0)

\* StatementResult with the pass votes counted into the ratio's denominator
StatementResultPassCounted(m, s) ==
  [statementId |-> s,
   totalVotes |-> Cardinality({ c \in DOMAIN m : c[2] = s }),
   agreeCount |-> CountVotes(m, s, 1),
   disagreeCount |-> CountVotes(m, s, 0 - 1),
   passCount |-> CountVotes(m, s, 0),
   agreementRatio |-> AgreementRatio(CountVotes(m, s, 1),
                                     CountVotes(m, s, 0 - 1) + CountVotes(m, s, 0)),
   divisiveness |-> Divisiveness(CountVotes(m, s, 1),
                                 CountVotes(m, s, 0 - 1) + CountVotes(m, s, 0))]

StatementResult(m, s) ==
  [statementId |-> s,
   totalVotes |-> Cardinality({ c \in DOMAIN m : c[2] = s }),
   agreeCount |-> CountVotes(m, s, 1),
   disagreeCount |-> CountVotes(m, s, 0 - 1),
   passCount |-> CountVotes(m, s, 0),
   agreementRatio |-> AgreementRatio(CountVotes(m, s, 1), CountVotes(m, s, 0 - 1)),
   divisiveness |-> Divisiveness(CountVotes(m, s, 1), CountVotes(m, s, 0 - 1))]

\* a + b on numbers
Add(a, b) == Sub(a, Sub(Num(0), b))

\* Sum of the values of a function with a finite domain
RECURSIVE SumFn(_)
SumFn(f) ==
  IF DOMAIN f = {} THEN 0
  ELSE LET x == CHOOSE x \in DOMAIN f : TRUE
       IN  f[x] + SumFn([y \in DOMAIN f \ {x} |-> f[y]])

\* The participants in the order of their first vote event
RECURSIVE ParticipantOrder(_)
ParticipantOrder(events) ==
  IF events = <<>> THEN <<>>
  ELSE LET before == ParticipantOrder(SubSeq(events, 1, Len(events) - 1))
           u == events[Len(events)].user_id
       IN  IF \E i \in 1..Len(before) : before[i] = u THEN before ELSE Append(before, u)

\* A participant's voting vector: one coordinate per statement, a missing vote is 0
VoteVector(m, u) ==
  [s \in StatementIds(m) |-> IF <<u, s>> \in DOMAIN m THEN m[<<u, s>>] ELSE 0]

\* k = min(4, ceil(sqrt(n / 2))) with floor 1, reduced to n: 0 without participants
ClusterCountFor(n) ==
  IF n = 0 THEN 0
  ELSE LET root == CHOOSE c \in 1..n : 2 * c * c >= n /\ \A d \in 1..(c - 1) : 2 * d * d < n
           k == IF root > 4 THEN 4 ELSE root
       IN  IF k > n THEN n ELSE k

\* Rounds of reassignment the grouping runs after the first assignment
KMeansRounds == 2

\* A centroid is [sum, count]: the mean of count vectors whose sum is sum.
\* Squared distance of vector v to centroid c, times c.count squared
Dist(v, c) ==
  SumFn([s \in DOMAIN v |-> (v[s] * c.count - c.sum[s]) * (v[s] * c.count - c.sum[s])])

\* v is strictly nearer to centroid c1 than to c2
Nearer(v, c1, c2) == Dist(v, c1) * c2.count * c2.count < Dist(v, c2) * c1.count * c1.count

\* The first of the centroids nearest to v
Nearest(v, cs) ==
  CHOOSE j \in 1..Len(cs) :
    \A l \in 1..Len(cs) : /\ l < j => Nearer(v, cs[j], cs[l])
                          /\ l > j => ~Nearer(v, cs[l], cs[j])

\* The cluster of each participant
Assignment(m, order, cs) ==
  [i \in 1..Len(order) |-> Nearest(VoteVector(m, order[i]), cs)]

\* The centroids moved to the mean of their members; one without members stays
Recentre(m, order, cs, assign) ==
  [j \in 1..Len(cs) |->
     LET members == { i \in 1..Len(order) : assign[i] = j }
     IN  IF members = {} THEN cs[j]
         ELSE [sum |-> [s \in StatementIds(m) |->
                          SumFn([i \in members |-> VoteVector(m, order[i])[s]])],
               count |-> Cardinality(members)]]

\* k-means over the vote vectors: the centroids after the given rounds
RECURSIVE KMeans(_, _, _, _)
KMeans(m, order, cs, rounds) ==
  IF rounds = 0 THEN cs
  ELSE KMeans(m, order, Recentre(m, order, cs, Assignment(m, order, cs)), rounds - 1)

\* The members of cluster j, with the last participant left out
MembersOfShort(order, assign, j) ==
  { order[i] : i \in { n \in 1..(Len(order) - 1) : assign[n] = j } }

\* member_ids of cluster j
MembersOf(order, assign, j) ==
  { order[i] : i \in { n \in 1..Len(order) : assign[n] = j } }

\* A participant's rate of casting agree votes
AgreeRate(m, u) ==
  Div(Num(Cardinality({ c \in DOMAIN m : c[1] = u /\ m[c] = 1 })),
      Num(Cardinality({ c \in DOMAIN m : c[1] = u })))

\* Sum of the agree rates of a set of participants
RECURSIVE SumRates(_, _)
SumRates(m, users) ==
  IF users = {} THEN Num(0)
  ELSE LET u == CHOOSE u \in users : TRUE
       IN  Add(AgreeRate(m, u), SumRates(m, users \ {u}))

\* Cluster: avg_agreement is the mean of the members' agree rates, 0 without members
Cluster(m, j, members) ==
  [id |-> j - 1,
   memberIds |-> members,
   memberCount |-> Cardinality(members),
   avgAgreement |-> IF members = {} THEN Num(0)
                    ELSE Div(SumRates(m, members), Num(Cardinality(members)))]

\* Opinion clustering: the first k participants seed the centroids
Clusters(m, order) ==
  LET k == ClusterCountFor(Len(order))
      seeds == [j \in 1..k |-> [sum |-> VoteVector(m, order[j]), count |-> 1]]
      assign == Assignment(m, order, KMeans(m, order, seeds, KMeansRounds))
  IN  [j \in 1..k |-> Cluster(m, j, MembersOf(order, assign, j))]

\* analyzeConsensus with the floor of 1 on the cluster count kept for no participants
analyzeConsensusFloored(events) ==
  LET m == VoteMatrix(events)
      order == ParticipantOrder(events)
  IN  [rejected |-> \E i \in 1..Len(events) : events[i].value \notin VoteValues,
       totalParticipants |-> Cardinality(Participants(m)),
       statements |-> [s \in StatementIds(m) |-> StatementResult(m, s)],
       clusterCount |-> IF order = <<>> THEN 1 ELSE ClusterCountFor(Len(order)),
       clusters |-> Clusters(m, order)]

analyzeConsensus(events) ==
  LET m == VoteMatrix(events)
      order == ParticipantOrder(events)
  IN  [rejected |-> \E i \in 1..Len(events) : events[i].value \notin VoteValues,
       totalParticipants |-> Cardinality(Participants(m)),
       statements |-> [s \in StatementIds(m) |-> StatementResult(m, s)],
       clusterCount |-> ClusterCountFor(Len(order)),
       clusters |-> Clusters(m, order)]

(***************************************************************************)
(* Feed page (the component at lines 172-611 of routes/forum/[id]/index.tsx).*)
(* A timeline item is [uri, reason, createdAt, likeCount, replyCount,      *)
(* repostCount, downvotes]: reason tells a repost of a post from the post  *)
(* itself, createdAt = 0 is a record without createdAt, and downvotes is   *)
(* the number of downvote links the constellation service holds for the    *)
(* post, which is what getDownvoteCounts answers.                          *)
(* feed.loading, feed.cursors and feed.error are not modelled: loadFeed is *)
(* one step, taken when the feed service answers, and the service holds    *)
(* the same timeline for the whole visit.                                  *)
(* A task is [pc, dirty, ...]: dirty says a tracked value changed since    *)
(* the task last started, pc = "import" that it is past its first await.   *)
(* A task runs again only after its previous run has ended.  What a task   *)
(* does after its first await is one step, taken at the task's last write. *)
(***************************************************************************)
Item(u, why, t, l, rp, rt, dv) ==
  [uri |-> u, reason |-> why, createdAt |-> t, likeCount |-> l, replyCount |-> rp,
   repostCount |-> rt, downvotes |-> dv]

\* What the feed service holds during a visit: the first page, the page a later
\* refresh brings and the page a "Load More" brings.  Posts with and without votes, replies and reposts, posts
\* of one instant, a post without createdAt, and a post next to a repost of it
Timelines ==
  { [first |-> <<>>,
     again |-> <<>>,
     more |-> <<>>],
    [first |-> <<Item("a", "", 2, 1, 1, 0, 0), Item("b", "", 1, 2, 0, 2, 1)>>,
     again |-> <<Item("a", "", 2, 1, 1, 0, 0), Item("b", "", 1, 2, 0, 2, 1)>>,
     more |-> <<Item("c", "", 1, 0, 0, 0, 0)>>],
    [first |-> <<Item("b", "", 1, 0, 0, 0, 0), Item("a", "", 1, 0, 0, 0, 1)>>,
     again |-> <<Item("b", "", 1, 0, 0, 0, 0), Item("a", "", 1, 0, 0, 0, 1)>>,
     more |-> <<>>],
    [first |-> <<Item("c", "", 1, 3, 0, 0, 1), Item("b", "", 2, 5, 0, 0, 1),
                 Item("a", "", 0, 3, 0, 0, 0)>>,
     again |-> <<Item("c", "", 1, 3, 0, 0, 1), Item("b", "", 2, 5, 0, 0, 1),
                 Item("a", "", 0, 3, 0, 0, 0)>>,
     more |-> <<>>],
    [first |-> <<Item("a", "", 1, 1, 0, 0, 0), Item("a", "repost", 1, 1, 0, 0, 0)>>,
     again |-> <<Item("a", "", 1, 1, 0, 0, 0), Item("a", "repost", 1, 1, 0, 0, 0)>>,
     more |-> <<Item("b", "", 2, 0, 0, 0, 0)>>],
    [first |-> <<Item("a", "", 2, 2, 0, 0, 1), Item("b", "", 1, 1, 0, 0, 0)>>,
     again |-> <<Item("a", "", 2, 2, 0, 0, 1), Item("b", "", 1, 1, 0, 0, 0)>>,
     more |-> <<Item("a", "repost", 2, 2, 0, 0, 1)>>] }

\* Longest feed the model loads
MaxFeed == 3

\* A sort mode outside the four: the select's value is cast, not checked
SortModes == Strategies \cup {"hot"}

SeenCap == 2000

IdleFetch == [pc |-> "idle", dirty |-> TRUE]

IdleSort == [pc |-> "idle", dirty |-> TRUE, filtered |-> <<>>, sortable |-> <<>>]

\* The signals of a freshly mounted feed page; every task is still to run once
FeedInit ==
  /\ timeline \in (IF route = "feed" THEN Timelines
                     ELSE {[first |-> <<>>, again |-> <<>>, more |-> <<>>]})
  /\ feedItems = <<>>
  /\ sortMode = "newest"
  /\ seenStorage = <<>>
  /\ seenPosts = seenStorage
  /\ hideSeenPosts = FALSE
  /\ downvoteCounts = <<>>
  /\ sortedDisplayItems = <<>>
  /\ fetchTask = IdleFetch
  /\ sortTask = IdleSort

\* What 'purplesky-seen-posts' holds after SeenCap posts of earlier visits were seen
StoredSeen == [i \in 1..SeenCap |-> ToString(i)]

\* The timelines of the visits that mark posts as seen
SeenTimelines ==
  { [first |-> <<Item("b", "", 2, 2, 0, 2, 1), Item("a", "", 1, 1, 1, 0, 0)>>,
     again |-> <<Item("b", "", 2, 2, 0, 2, 1), Item("a", "", 1, 1, 1, 0, 0)>>,
     more |-> <<>>],
    [first |-> <<Item("a", "", 1, 1, 1, 0, 0)>>,
     again |-> <<Item("b", "", 2, 2, 0, 2, 1)>>,
     more |-> <<>>],
    [first |-> <<Item("a", "", 1, 1, 0, 0, 0), Item("a", "repost", 1, 1, 0, 0, 0)>>,
     again |-> <<Item("a", "", 1, 1, 0, 0, 0), Item("a", "repost", 1, 1, 0, 0, 0)>>,
     more |-> <<>>] }

\* A feed page mounted with seen posts of earlier visits in localStorage: the
\* initial load has read them
SeenFeedInit ==
  /\ timeline \in SeenTimelines
  /\ feedItems = <<>>
  /\ sortMode = "newest"
  /\ seenStorage \in {<<>>, StoredSeen}
  /\ seenPosts = seenStorage
  /\ hideSeenPosts = FALSE
  /\ downvoteCounts = <<>>
  /\ sortedDisplayItems = <<>>
  /\ fetchTask = IdleFetch
  /\ sortTask = IdleSort

InSeq(x, seq) == \E i \in 1..Len(seq) : seq[i] = x

\* items.filter(...) of the sort task and of displayItems
FilterSeen(items, hide, seen) ==
  SelectSeq(items, LAMBDA item : ~(hide /\ InSeq(item.uri, seen)))

\* filtered.map(...): the ScorableItem of each timeline item
Sortable(items, counts) ==
  [i \in 1..Len(items) |->
     [uri |-> items[i].uri,
      created_at |-> items[i].createdAt,
      like_count |-> items[i].likeCount,
      downvote_count |-> DownvotesOf(counts, items[i].uri),
      reply_count |-> items[i].replyCount,
      repost_count |-> items[i].repostCount]]

\* switch (sortMode.value)
SortSwitch(mode, sortable) ==
  IF mode = "trending" THEN sortByTrending(sortable)
  ELSE IF mode = "wilson" THEN sortByWilsonScore(sortable)
  ELSE IF mode = "controversial" THEN sortByControversial(sortable)
  ELSE sortByNewest(sortable)

\* new Map(filtered.map(i => [uri, i])).get(uri): the last item of that URI
RECURSIVE ByUri(_, _)
ByUri(filtered, uri) ==
  IF filtered = <<>> THEN <<>>
  ELSE IF filtered[Len(filtered)].uri = uri THEN <<filtered[Len(filtered)]>>
  ELSE ByUri(SubSeq(filtered, 1, Len(filtered) - 1), uri)

\* ordered.map(s => byUri.get(s.uri)).filter(Boolean)
RECURSIVE Rebuild(_, _)
Rebuild(ordered, filtered) ==
  IF ordered = <<>> THEN <<>>
  ELSE ByUri(filtered, Head(ordered).uri) \o Rebuild(Tail(ordered), filtered)

\* displayItems of the component body
displayItems ==
  IF Len(sortedDisplayItems) > 0 THEN sortedDisplayItems
  ELSE FilterSeen(feedItems, hideSeenPosts, seenPosts)

\* The answer of getDownvoteCounts for the posts of these items
RECURSIVE CountsOf(_)
CountsOf(items) ==
  IF items = <<>> THEN <<>>
  ELSE SetCount(CountsOf(Tail(items)), Head(items).uri, Head(items).downvotes)

Dirty(task, changed) == [task EXCEPT !.dirty = @ \/ changed]

\* loadFeed(append) when the feed service has answered
loadFeed(append) ==
  /\ route = "feed"
  /\ append => (feedItems # <<>> /\ Len(feedItems) + Len(timeline.more) <= MaxFeed)
  /\ LET items == IF append THEN feedItems \o timeline.more
                  ELSE IF feedItems = <<>> THEN timeline.first
                  ELSE timeline.again
     IN  /\ feedItems' = items
         /\ fetchTask' = Dirty(fetchTask, Len(items) # Len(feedItems))
         /\ sortTask' = Dirty(sortTask, Len(items) # Len(feedItems))
  /\ UNCHANGED <<route, timeline, sortMode, seenPosts, hideSeenPosts, seenStorage,
                 downvoteCounts, sortedDisplayItems>>

\* The sort select
SetSortMode(m) ==
  /\ route = "feed" /\ m # sortMode
  /\ sortMode' = m
  /\ sortTask' = Dirty(sortTask, TRUE)
  /\ UNCHANGED <<route, timeline, feedItems, seenPosts, hideSeenPosts, seenStorage,
                 downvoteCounts, sortedDisplayItems, fetchTask>>

\* The hide-seen toggle
ToggleHideSeen ==
  /\ route = "feed"
  /\ hideSeenPosts' = ~hideSeenPosts
  /\ sortTask' = Dirty(sortTask, TRUE)
  /\ UNCHANGED <<route, timeline, feedItems, sortMode, seenPosts, seenStorage,
                 downvoteCounts, sortedDisplayItems, fetchTask>>

\* The seen set after markSeen with the newest entries dropped beyond the cap
SeenAfterNewestDropped(seen, uri) ==
  LET next == IF InSeq(uri, seen) THEN seen ELSE Append(seen, uri)
  IN  IF Len(next) > SeenCap THEN SubSeq(next, 1, SeenCap) ELSE next

\* new Set(seenPosts).add(uri), the oldest entries dropped beyond the cap
SeenAfter(seen, uri) ==
  LET next == IF InSeq(uri, seen) THEN seen ELSE Append(seen, uri)
  IN  IF Len(next) > SeenCap THEN SubSeq(next, Len(next) - SeenCap + 1, Len(next)) ELSE next

\* markSeen(uri), from the onSeen$ of a displayed card; localStorage.setItem stores
\* the set, or throws and the error is ignored
markSeen(i, stored) ==
  /\ route = "feed"
  /\ sortTask' = Dirty(sortTask, TRUE)
  /\ UNCHANGED <<route, timeline, feedItems, sortMode, hideSeenPosts, downvoteCounts,
                 sortedDisplayItems, fetchTask>>
  /\ i \in 1..Len(displayItems)
  /\ seenPosts' = SeenAfter(seenPosts, displayItems[i].uri)
  /\ seenStorage' = IF stored THEN seenPosts' ELSE seenStorage

\* Downvote-count task, to its first await
FetchStart ==
  /\ route = "feed" /\ fetchTask.pc = "idle" /\ fetchTask.dirty
  /\ IF Len(feedItems) = 0
       THEN /\ downvoteCounts' = <<>>
            /\ fetchTask' = [fetchTask EXCEPT !.dirty = FALSE]
            /\ sortTask' = Dirty(sortTask, TRUE)
       ELSE /\ fetchTask' = [fetchTask EXCEPT !.dirty = FALSE, !.pc = "import"]
            /\ UNCHANGED <<downvoteCounts, sortTask>>
  /\ UNCHANGED <<route, timeline, feedItems, sortMode, seenPosts, hideSeenPosts, seenStorage,
                 sortedDisplayItems>>

\* Downvote-count task, from the import on: getDownvoteCounts(uris) is sent and
\* its counts arrive, or the request fails
FetchDone(ok) ==
  /\ route = "feed" /\ fetchTask.pc = "import"
  /\ fetchTask' = [fetchTask EXCEPT !.pc = "idle"]
  /\ IF ok THEN /\ downvoteCounts' = CountsOf(feedItems)
                /\ sortTask' = Dirty(sortTask, TRUE)
           ELSE UNCHANGED <<downvoteCounts, sortTask>>
  /\ UNCHANGED <<route, timeline, feedItems, sortMode, seenPosts, hideSeenPosts, seenStorage,
                 sortedDisplayItems>>

\* Sort task, to its first await: filter, and map to sortable items
SortStart ==
  /\ route = "feed" /\ sortTask.pc = "idle" /\ sortTask.dirty
  /\ LET filtered == FilterSeen(feedItems, hideSeenPosts, seenPosts)
     IN  IF Len(filtered) = 0
           THEN /\ sortedDisplayItems' = <<>>
                /\ sortTask' = [sortTask EXCEPT !.dirty = FALSE]
           ELSE /\ sortTask' = [sortTask EXCEPT !.dirty = FALSE, !.pc = "import",
                                                !.filtered = filtered,
                                                !.sortable = Sortable(filtered, downvoteCounts)]
                /\ UNCHANGED sortedDisplayItems
  /\ UNCHANGED <<route, timeline, feedItems, sortMode, seenPosts, hideSeenPosts, seenStorage,
                 downvoteCounts, fetchTask>>

\* What the sort task publishes: the order of the switch, rebuilt into timeline items
Ordered(mode, task) == Rebuild(SortSwitch(mode, task.sortable), task.filtered)

\* Sort task, from the import on: the switch picks the sort, the order arrives and
\* the display list is rebuilt from it
SortFinish ==
  /\ route = "feed" /\ sortTask.pc = "import"
  /\ sortedDisplayItems' = Ordered(sortMode, sortTask)
  /\ sortTask' = [sortTask EXCEPT !.pc = "idle", !.filtered = <<>>, !.sortable = <<>>]
  /\ UNCHANGED <<route, timeline, feedItems, sortMode, seenPosts, hideSeenPosts, seenStorage,
                 downvoteCounts, fetchTask>>

(***************************************************************************)
(* Consensus page (routes/consensus/index.tsx).  A statement is            *)
(* [id, myVote] with myVote = <<>> for null and <<v>> for a vote v.        *)
(***************************************************************************)
SeedIds == <<"1", "2", "3", "4", "5">>

\* The id `${Date.now()}` of a statement the user adds
AddedId == "1700000000000"

\* The statements whose buttons are clicked
ClickedIds == {"1", "2"}

\* app.session.did ?? 'anonymous'
SessionUser == "anonymous"

ConsensusInit ==
  /\ statements = [i \in 1..Len(SeedIds) |-> [id |-> SeedIds[i], myVote |-> <<>>]]
  /\ result = <<>>
  /\ analyses = <<>>

\* statements.filter(s => s.myVote !== null).map(...)
VotesOf(stmts) ==
  LET voted == SelectSeq(stmts, LAMBDA s : s.myVote # <<>>)
  IN  [i \in 1..Len(voted) |-> VoteEvent(SessionUser, voted[i].id, voted[i].myVote[1])]

\* stmt.myVote = stmt.myVote === value ? null : value
Toggle(stmts, id, value) ==
  [i \in 1..Len(stmts) |->
     IF stmts[i].id = id
       THEN [stmts[i] EXCEPT !.myVote = IF @ = <<value>> THEN <<>> ELSE <<value>>]
     ELSE stmts[i]]

\* vote(statementId, value), and analyze() to its first await
vote(id, value) ==
  /\ route = "consensus" /\ Len(analyses) < 2
  /\ \E i \in 1..Len(statements) : statements[i].id = id
  /\ statements' = Toggle(statements, id, value)
  /\ analyses' = IF Len(VotesOf(statements')) = 0 THEN analyses
                 ELSE Append(analyses, VotesOf(statements'))
  /\ UNCHANGED <<route, result>>

\* analyze(): analyzeConsensus answers the oldest call, or the call fails
AnalyzeDone(ok) ==
  /\ route = "consensus" /\ analyses # <<>>
  /\ result' = IF ok THEN <<analyzeConsensus(Head(analyses))>> ELSE result
  /\ analyses' = Tail(analyses)
  /\ UNCHANGED <<route, statements>>

\* addStatement with a non-blank text
addStatement ==
  /\ route = "consensus" /\ Len(statements) = Len(SeedIds)
  /\ statements' = Append(statements, [id |-> AddedId, myVote |-> <<>>])
  /\ UNCHANGED <<route, result, analyses>>

\* getStatementResult(id): <<>> when there is none
getStatementResult(id) ==
  IF result # <<>> /\ id \in DOMAIN result[1].statements
    THEN <<result[1].statements[id]>>
  ELSE <<>>

(***************************************************************************)
(* The engine called directly: rank on generated item lists, and           *)
(* analyzeConsensus on the vote events of several participants.            *)
(***************************************************************************)
\* Posts that differ in age only
RecencyItems == { Item(u, "", t, 0, 0, 0, 0) : u \in Uris, t \in 0..MaxTime }

\* Posts with every vote count in bounds
VoteItems == { Item(u, "", 1, l, 0, 0, dv) : u \in Uris, l \in 0..MaxCount, dv \in 0..MaxCount }

\* One post, or two posts of different URIs
PagesOf(items) ==
  { <<x>> : x \in items }
  \cup { <<p[1], p[2]>> : p \in { q \in items \X items : q[1].uri # q[2].uri } }

\* Lists with replies and reposts counted, and of three posts
ExamplePages ==
  { <<Item("a", "", 2, 1, 1, 0, 0), Item("b", "", 1, 2, 0, 2, 1)>>,
    <<Item("b", "", 1, 0, 2, 0, 2), Item("a", "", 0, 0, 0, 0, 1)>>,
    <<Item("c", "", 1, 3, 0, 0, 1), Item("b", "", 2, 5, 0, 0, 1), Item("a", "", 1, 3, 0, 0, 0)>> }

RankInputs ==
  { Sortable(page, CountsOf(page)) :
      page \in {<<>>} \cup PagesOf(RecencyItems) \cup PagesOf(VoteItems) \cup ExamplePages }

Users == {"u1", "u2"}

StatementNames == {"s1", "s2"}

\* Most vote events the participants of Users cast
MaxEvents == 3

\* Ten participants on one statement: 6 agree, 2 disagree, 2 pass
FixtureVotes ==
  <<VoteEvent("p1", "s1", 1), VoteEvent("p2", "s1", 1), VoteEvent("p3", "s1", 0 - 1),
    VoteEvent("p4", "s1", 1), VoteEvent("p5", "s1", 0), VoteEvent("p6", "s1", 1),
    VoteEvent("p7", "s1", 0 - 1), VoteEvent("p8", "s1", 1), VoteEvent("p9", "s1", 0),
    VoteEvent("p10", "s1", 1)>>

\* Three participants on two statements
SmallVotes ==
  <<VoteEvent("p1", "s1", 1), VoteEvent("p2", "s1", 0 - 1), VoteEvent("p3", "s2", 1)>>

Harnesses == {"ranking", "analysis"}

EngineInit ==
  /\ engItems \in (IF route = "ranking" THEN RankInputs ELSE {<<>>})
  /\ engStrategy = ""
  /\ engResult = [rejected |-> FALSE, order |-> <<>>]
  /\ voteEvents \in (IF route = "analysis" THEN {<<>>, SmallVotes, FixtureVotes} ELSE {<<>>})
  /\ analysis = analyzeConsensus(voteEvents)

\* rank(items, strategy)
RankCall(strategy) ==
  /\ route = "ranking" /\ strategy # engStrategy
  /\ engStrategy' = strategy
  /\ engResult' = rank(engItems, strategy)
  /\ UNCHANGED <<route, engItems, voteEvents, analysis>>

\* One more vote event arrives and the votes are analyzed
CastVote(u, s, v) ==
  /\ route = "analysis"
  /\ Cardinality({ i \in 1..Len(voteEvents) : voteEvents[i].user_id \in Users }) < MaxEvents
  /\ voteEvents' = Append(voteEvents, VoteEvent(u, s, v))
  /\ analysis' = analyzeConsensus(voteEvents')
  /\ UNCHANGED <<route, engItems, engStrategy, engResult>>

\* analyzeConsensus([]): the caller analyzes an empty vote list
AnalyzeEmpty ==
  /\ route = "analysis" /\ voteEvents # <<>>
  /\ voteEvents' = <<>>
  /\ analysis' = analyzeConsensus(voteEvents')
  /\ UNCHANGED <<route, engItems, engStrategy, engResult>>

(***************************************************************************)
(* Service worker (public/sw.js).  A URL is [host, name, ext]: the host as *)
(* its sequence of labels, the path as a number that names it and its      *)
(* extension.  A request is [url, method, mode].  A response is            *)
(* [status, body, at] with at the clock when the network produced it.      *)
(* The handler of a fetch event is one step, the cache.put it starts       *)
(* included; the network answers 200, answers 500, or the fetch fails.     *)
(* Cache storage outlives the worker: the worker may start with the image  *)
(* cache filled by earlier runs.                                           *)
(***************************************************************************)
STATIC_CACHE == "purplesky-static-v1"

IMAGE_CACHE == "purplesky-images-v1"

API_CACHE == "purplesky-api-v1"

API_MAX_AGE_MS == 5 * 60 * 1000

MAX_CACHED_IMAGES == 200

\* Most clock ticks of a run, each of the maximum age of an API response
MaxTicks == 2

\* The worker's own origin
Origin == <<"slrgt", "github", "io">>

Url(host, name, ext) == [host |-> host, name |-> name, ext |-> ext]

Request(url, method, mode) == [url |-> url, method |-> method, mode |-> mode]

Response(status, body, at) == [status |-> status, body |-> body, at |-> at]

\* './index.html' of PRECACHE_URLS
IndexHtml == Url(Origin, 0, "html")

\* An image a third host serves: number i, with extension ext
ImageUrl(i, ext) == Url(<<"img", "example", "org">>, i, ext)

\* An image of the Bluesky CDN, whose path ends in '@jpeg'
CdnUrl == Url(<<"cdn", "bsky", "app">>, 1, "")

\* An XRPC endpoint of the public API
ApiUrl == Url(<<"public", "api", "bsky", "app">>, 1, "")

\* An avatar the PDS serves as a file
PdsImageUrl == Url(<<"bsky", "social">>, 1, "png")

WasmUrl == Url(Origin, 1, "wasm")

\* The fetch events of a run: of a page that reads and writes the API, of a page
\* that shows images of three hosts, and of the application's own files
Traffics ==
  { { Request(ApiUrl, "GET", "cors"),
      Request(ApiUrl, "POST", "cors"),
      Request(CdnUrl, "GET", "no-cors") },
    { Request(PdsImageUrl, "GET", "no-cors"),
      Request(ImageUrl(1, "JPG"), "GET", "no-cors"),
      Request(ImageUrl(MAX_CACHED_IMAGES + 1, "webp"), "GET", "no-cors") },
    { Request(WasmUrl, "GET", "cors"),
      Request(Url(Origin, 2, ""), "GET", "navigate"),
      Request(ImageUrl(2, "mp4"), "GET", "no-cors") } }

Requests == UNION Traffics

\* What fetch(request) does: resolves ok, resolves with a server error, or rejects
NetOutcomes == {"ok", "error", "down"}

\* hostname.includes(needle), on whole labels
HostIncludes(host, needle) ==
  \E i \in 0..(Len(host) - Len(needle)) : SubSeq(host, i + 1, i + Len(needle)) = needle

\* The extension in lower case, as the /i flag of the pattern reads it
LowerExt(ext) == IF ext = "JPG" THEN "jpg" ELSE ext

\* url.pathname.match(/\.(jpg|jpeg|png|gif|webp|svg|mp4|webm)$/i)
MatchesMedia(url) ==
  LowerExt(url.ext) \in {"jpg", "jpeg", "png", "gif", "webp", "svg", "mp4", "webm"}

\* The first test of the fetch handler
IsApiHost(url) ==
  \/ HostIncludes(url.host, <<"bsky", "social">>)
  \/ HostIncludes(url.host, <<"bsky", "app">>)
  \/ HostIncludes(url.host, <<"microcosm", "blue">>)

\* The second test of the fetch handler
IsMedia(url) == MatchesMedia(url) \/ HostIncludes(url.host, <<"cdn", "bsky", "app">>)

\* caches.match(request): the first cache, in order of creation, that holds the URL;
\* <<>> when none does
CachesMatch(cs, url) ==
  IF url \in DOMAIN cs[STATIC_CACHE] THEN <<cs[STATIC_CACHE][url]>>
  ELSE IF url \in DOMAIN cs[IMAGE_CACHE] THEN <<cs[IMAGE_CACHE][url]>>
  ELSE IF url \in DOMAIN cs[API_CACHE] THEN <<cs[API_CACHE][url]>>
  ELSE <<>>

\* cache.put(request, response.clone()) on the cache of this name
CachePut(cs, cacheName, url, response) ==
  [cs EXCEPT ![cacheName] =
     [u \in DOMAIN @ \cup {url} |-> IF u = url THEN response ELSE @[u]]]

\* What fetch(request) resolves with
NetResponse(net, at) == Response(IF net = "ok" THEN 200 ELSE 500, "network", at)

\* An answer of the worker: the response, where it came from, whether the network
\* was asked, and the caches afterwards
Answer(response, source, fetched, cs) ==
  [response |-> response, source |-> source, fetched |-> fetched, caches |-> cs]

\* try { fetch, put when ok }: the part the two strategies share
FetchAndPut(cs, request, cacheName, net, at) ==
  Answer(<<NetResponse(net, at)>>, "network", TRUE,
         IF net = "ok" THEN CachePut(cs, cacheName, request.url, NetResponse(net, at))
         ELSE cs)

\* cacheFirst(request, cacheName)
cacheFirst(cs, request, cacheName, net, at) ==
  IF CachesMatch(cs, request.url) # <<>>
    THEN Answer(CachesMatch(cs, request.url), "cache", FALSE, cs)
  ELSE IF net # "down" THEN FetchAndPut(cs, request, cacheName, net, at)
  ELSE IF request.mode = "navigate"
    THEN Answer(CachesMatch(cs, IndexHtml), "cache", TRUE, cs)
  ELSE Answer(<<Response(503, "Offline", at)>>, "offline", TRUE, cs)

\* networkFirst answering from the cache when it holds the request
networkFirstCached(cs, request, cacheName, net, at) ==
  IF CachesMatch(cs, request.url) # <<>>
    THEN Answer(CachesMatch(cs, request.url), "cache", FALSE, cs)
  ELSE IF net # "down" THEN FetchAndPut(cs, request, cacheName, net, at)
  ELSE Answer(<<Response(503, "OfflineJson", at)>>, "offline", TRUE, cs)

\* networkFirst(request, cacheName)
networkFirst(cs, request, cacheName, net, at) ==
  IF net # "down" THEN FetchAndPut(cs, request, cacheName, net, at)
  ELSE IF CachesMatch(cs, request.url) # <<>>
    THEN Answer(CachesMatch(cs, request.url), "cache", TRUE, cs)
  ELSE Answer(<<Response(503, "OfflineJson", at)>>, "offline", TRUE, cs)

\* The fetch listener: the strategy and cache it picks; a request it does not
\* answer goes to the network untouched
Respond(cs, request, net, at) ==
  IF request.method # "GET"
    THEN Answer(IF net = "down" THEN <<>> ELSE <<NetResponse(net, at)>>, "browser", TRUE, cs)
  ELSE IF IsApiHost(request.url) THEN networkFirst(cs, request, API_CACHE, net, at)
  ELSE IF IsMedia(request.url) THEN cacheFirst(cs, request, IMAGE_CACHE, net, at)
  ELSE IF request.url.ext = "wasm" THEN cacheFirst(cs, request, STATIC_CACHE, net, at)
  ELSE cacheFirst(cs, request, STATIC_CACHE, net, at)

\* The image cache earlier runs of the worker filled to the limit
FullImageCache ==
  [u \in { ImageUrl(i, "JPG") : i \in 1..MAX_CACHED_IMAGES } |-> Response(200, "network", 0)]

\* No fetch event yet
NoEvent ==
  [request |-> <<>>, net |-> "", matched |-> <<>>, response |-> <<>>, source |-> "",
   fetched |-> FALSE]

\* After install and activate: PRECACHE_URLS are in the static cache
WorkerInit ==
  /\ traffic \in (IF route = "worker" THEN Traffics ELSE {{}})
  /\ caches \in (IF route = "worker"
                   THEN { [c \in {STATIC_CACHE, IMAGE_CACHE, API_CACHE} |->
                             IF c = STATIC_CACHE
                               THEN [u \in {IndexHtml} |-> Response(200, "index", 0)]
                             ELSE IF c = IMAGE_CACHE THEN images
                             ELSE <<>>] : images \in {<<>>, FullImageCache} }
                   ELSE {<<>>})
  /\ clock = 0
  /\ handled = NoEvent

\* self.addEventListener('fetch', ...)
OnFetch(request, net) ==
  /\ route = "worker" /\ request \in traffic
  /\ LET a == Respond(caches, request, net, clock)
     IN  /\ caches' = a.caches
         /\ handled' = [request |-> <<request>>, net |-> net,
                        matched |-> CachesMatch(caches, request.url),
                        response |-> a.response, source |-> a.source,
                        fetched |-> a.fetched]
  /\ UNCHANGED <<route, traffic, clock>>

\* Time passes: the maximum age of an API response
Tick ==
  /\ route = "worker" /\ clock < MaxTicks * API_MAX_AGE_MS
  /\ clock' = clock + API_MAX_AGE_MS
  /\ UNCHANGED <<route, traffic, caches, handled>>

(***************************************************************************)
(* Layout (routes/layout.tsx): the account menu.  A DID is a string, ""    *)
(* for null; the handle and the avatar of an account are named by its DID. *)
(* lib/bsky and lib/oauth hold the OAuth sessions of the accounts: here    *)
(* the list accounts.  logoutAccount is not part of the sources: by its    *)
(* use it ends the session of the DID and returns the next remaining DID,  *)
(* or null.  A handler is one step from its first await on; the page       *)
(* reload that ends a switch is not modelled.                              *)
(***************************************************************************)
Dids == {"did:a", "did:b", "did:c"}

\* Lists of different DIDs
AccountLists ==
  { <<>> } \cup { <<x>> : x \in Dids }
  \cup { <<p[1], p[2]>> : p \in { q \in Dids \X Dids : q[1] # q[2] } }
  \cup { <<p[1], p[2], p[3]>> :
           p \in { q \in Dids \X Dids \X Dids : q[1] # q[2] /\ q[1] # q[3] /\ q[2] # q[3] } }

LoggedOut == [did |-> "", handle |-> "", avatar |-> "", isLoggedIn |-> FALSE]

Without(list, did) == SelectSeq(list, LAMBDA d : d # did)

\* After the restore task of the first load: the first account is the active one
LayoutInit ==
  /\ accounts \in (IF route = "layout" THEN AccountLists ELSE {<<>>})
  /\ session = IF accounts = <<>> THEN LoggedOut
               ELSE [did |-> accounts[1], handle |-> accounts[1], avatar |-> accounts[1],
                     isLoggedIn |-> TRUE]
  /\ otherAccounts = IF accounts = <<>> THEN <<>> ELSE Tail(accounts)
  /\ accountMenuOpen = FALSE
  /\ logout = [pc |-> "idle", currentDid |-> ""]

\* The account button
ToggleAccountMenu ==
  /\ route = "layout"
  /\ accountMenuOpen' = ~accountMenuOpen
  /\ UNCHANGED <<route, session, accounts, otherAccounts, logout>>

\* The store after onSwitchAccount(did): restoreOAuthSession gave a session or null,
\* agent.getProfile answered or failed
SwitchedSession(s, did, restored, profiled) ==
  IF ~restored THEN s
  ELSE [did |-> did,
        handle |-> IF profiled THEN did ELSE s.handle,
        avatar |-> IF profiled THEN did ELSE s.avatar,
        isLoggedIn |-> TRUE]

\* logoutAccount(did): the next remaining DID, "" when none remains
logoutAccount(list, did) == IF Without(list, did) = <<>> THEN "" ELSE Without(list, did)[1]

\* onSwitchAccount(did), from the account menu
onSwitchAccount(did, restored, profiled) ==
  /\ route = "layout" /\ accountMenuOpen
  /\ \E i \in 1..Len(otherAccounts) : otherAccounts[i] = did
  /\ accountMenuOpen' = FALSE
  /\ session' = SwitchedSession(session, did, restored, profiled)
  /\ otherAccounts' = IF restored THEN Without(accounts, did) ELSE otherAccounts
  /\ UNCHANGED <<route, accounts, logout>>

\* onLogout, to its first await
LogoutStart ==
  /\ route = "layout" /\ accountMenuOpen
  /\ logout.pc = "idle" /\ session.did # ""
  /\ logout' = [pc |-> "await", currentDid |-> session.did]
  /\ UNCHANGED <<route, session, accounts, otherAccounts, accountMenuOpen>>

\* onLogout, from logoutAccount on: the switch to the next account, or the store
\* cleared when no account is left
LogoutDone(restored, profiled) ==
  /\ route = "layout" /\ logout.pc = "await"
  /\ accounts' = Without(accounts, logout.currentDid)
  /\ LET nextDid == logoutAccount(accounts, logout.currentDid)
     IN  IF nextDid # ""
           THEN /\ session' = SwitchedSession(session, nextDid, restored, profiled)
                /\ otherAccounts' = IF restored THEN Without(accounts', nextDid)
                                    ELSE otherAccounts
           ELSE /\ session' = LoggedOut
                /\ otherAccounts' = <<>>
  /\ accountMenuOpen' = FALSE
  /\ logout' = [logout EXCEPT !.pc = "idle"]
  /\ UNCHANGED route

(***************************************************************************)
(* Layout (routes/layout.tsx): the global toast.  Three toggles of the     *)
(* floating bar set store.toastMessage; a task that tracks the message     *)
(* starts a timer of TOAST_MS that sets it back to null.  A task that      *)
(* tracks a value runs again after the value changed, not within the       *)
(* assignment: its cleanup, which clears the timer of the run before, is   *)
(* a step of its own.  Time passes in steps of TimeStep ms, and only       *)
(* while the task has nothing to run.                                      *)
(***************************************************************************)
TOAST_MS == 2500

TimeStep == 500

MaxToasts == 3

NoTimer == -1

CardViewModes == {"full", "mini", "art"}

NsfwModes == {"hide", "blur", "show"}

\* The settings are those the first load read back from localStorage
ToastInit ==
  /\ cardViewMode \in (IF route = "toast" THEN CardViewModes ELSE {"full"})
  /\ nsfwMode \in (IF route = "toast" THEN NsfwModes ELSE {"blur"})
  /\ mediaOnly \in (IF route = "toast" THEN BOOLEAN ELSE {FALSE})
  /\ toastMessage = ""
  /\ toastTask = FALSE
  /\ toastTimer = NoTimer
  /\ toastAge = 0
  /\ toasts = 0

NextCardView(mode) == IF mode = "full" THEN "mini" ELSE IF mode = "mini" THEN "art" ELSE "full"

CardViewToast(mode) ==
  IF mode = "full" THEN "Full cards" ELSE IF mode = "mini" THEN "Mini cards" ELSE "Art cards"

NextNsfw(mode) == IF mode = "hide" THEN "blur" ELSE IF mode = "blur" THEN "show" ELSE "hide"

NsfwToast(mode) == IF mode = "hide" THEN "SFW" ELSE IF mode = "blur" THEN "Blur" ELSE "NSFW"

MediaOnlyToast(on) == IF on THEN "Media only" ELSE "Media and text"

\* store.toastMessage = message: the task is notified when the value changed
SetToast(message) ==
  /\ toastMessage' = message
  /\ toastTask' = (toastTask \/ message # toastMessage)
  /\ toastAge' = IF message # toastMessage THEN 0 ELSE toastAge

\* A click that ends before the message is set
NoToast == UNCHANGED <<toastMessage, toastTask, toastAge>>

\* The card view button; localStorage.setItem may throw, and then the handler ends
CycleCardView(stored) ==
  /\ route = "toast" /\ toasts < MaxToasts
  /\ toasts' = toasts + 1
  /\ cardViewMode' = NextCardView(cardViewMode)
  /\ IF stored THEN SetToast(CardViewToast(cardViewMode')) ELSE NoToast
  /\ UNCHANGED <<route, nsfwMode, mediaOnly, toastTimer>>

\* The content filter button; localStorage.setItem may throw, and then the handler ends
CycleNsfw(stored) ==
  /\ route = "toast" /\ toasts < MaxToasts
  /\ toasts' = toasts + 1
  /\ nsfwMode' = NextNsfw(nsfwMode)
  /\ IF stored THEN SetToast(NsfwToast(nsfwMode')) ELSE NoToast
  /\ UNCHANGED <<route, cardViewMode, mediaOnly, toastTimer>>

\* The media-only button
ToggleMediaOnly ==
  /\ route = "toast" /\ toasts < MaxToasts
  /\ toasts' = toasts + 1
  /\ mediaOnly' = ~mediaOnly
  /\ SetToast(MediaOnlyToast(mediaOnly'))
  /\ UNCHANGED <<route, cardViewMode, nsfwMode, toastTimer>>

\* The auto-dismiss task runs again: the cleanup of the run before clears its timer,
\* and a message that is not null gets a new timer
ToastTaskRun ==
  /\ route = "toast" /\ toastTask
  /\ toastTask' = FALSE
  /\ toastTimer' = IF toastMessage = "" THEN NoTimer ELSE TOAST_MS
  /\ UNCHANGED <<route, cardViewMode, nsfwMode, mediaOnly, toastMessage, toastAge, toasts>>

\* The callback of the timer, when it has run down
ToastTimerFire ==
  /\ route = "toast" /\ toastTimer = 0
  /\ toastTimer' = NoTimer
  /\ SetToast("")
  /\ UNCHANGED <<route, cardViewMode, nsfwMode, mediaOnly, toasts>>

\* TimeStep ms pass
ToastTick ==
  /\ route = "toast" /\ ~toastTask /\ toastTimer > 0
  /\ toastTimer' = IF toastTimer > TimeStep THEN toastTimer - TimeStep ELSE 0
  /\ toastAge' = IF toastAge + TimeStep < TOAST_MS THEN toastAge + TimeStep ELSE TOAST_MS
  /\ UNCHANGED <<route, cardViewMode, nsfwMode, mediaOnly, toastMessage, toastTask, toasts>>

(***************************************************************************)
(* Layout (routes/layout.tsx): scroll position preservation.  The popstate *)
(* handler and the task that tracks the location hide #main-content, jump  *)
(* to the saved position RestoreAttempts + 1 times and show the content    *)
(* again.  A restore chain is a record: pc "start" while its first timeout *)
(* is pending, "wait" between two attempts, "reveal" for the last          *)
(* animation frame; a timeout and the animation frame it requests are one  *)
(* step.  The entry _scrollY of history.state is an input of the popstate  *)
(* event.  The debounced save of the scroll listener is not modelled: the  *)
(* scroll map changes by the save of a click on a link.                    *)
(***************************************************************************)
RestoreAttempts == 4

SavedY == 400

MaxNavs == 2

NoState == -1

Pages == {"/", "/forum/"}

ScrollYs == {0, SavedY}

\* The page as mounted: the navigation task has its first run ahead
ScrollInit ==
  /\ location \in (IF route = "scroll" THEN Pages ELSE {"/"})
  /\ scrollMap \in (IF route = "scroll" THEN [Pages -> ScrollYs] ELSE {[p \in Pages |-> 0]})
  /\ scrollY = 0
  /\ mainHidden = FALSE
  /\ navTask = TRUE
  /\ restores = {}
  /\ navs = 0

\* saveCurrentScroll: the scroll map with the position of the current page
saveCurrentScroll == [scrollMap EXCEPT ![location] = scrollY]

\* A new restore chain, before its first timeout
Restore(from, target) ==
  [id |-> navs, from |-> from, target |-> target, pc |-> "start", attempts |-> RestoreAttempts]

\* A click on an internal link: onClickCapture saves the position, the router goes to
\* the page and scrolls to the top; the task is notified when the location changed
ClickLink(page) ==
  /\ route = "scroll" /\ navs < MaxNavs
  /\ navs' = navs + 1
  /\ scrollMap' = saveCurrentScroll
  /\ location' = page
  /\ scrollY' = 0
  /\ navTask' = (navTask \/ page # location)
  /\ UNCHANGED <<route, mainHidden, restores>>

\* The scroll target of onPopState
PopTarget(page, stateScroll) == IF stateScroll # NoState THEN stateScroll ELSE scrollMap[page]

\* Back or forward to page: onPopState
onPopState(page, stateScroll) ==
  /\ route = "scroll" /\ navs < MaxNavs
  /\ navs' = navs + 1
  /\ location' = page
  /\ navTask' = (navTask \/ page # location)
  /\ IF PopTarget(page, stateScroll) = 0
       THEN UNCHANGED <<mainHidden, restores>>
       ELSE /\ mainHidden' = TRUE
            /\ restores' = restores \cup {Restore("popstate", PopTarget(page, stateScroll))}
  /\ UNCHANGED <<route, scrollMap, scrollY>>

\* The navigation task runs again: the cleanup of the run before clears its first
\* timeout when that has not fired yet; then the body
NavTaskRun ==
  /\ route = "scroll" /\ navTask
  /\ navTask' = FALSE
  /\ LET kept == { r \in restores : ~(r.from = "task" /\ r.pc = "start") }
     IN  IF scrollMap[location] <= 0
           THEN /\ restores' = kept
                /\ UNCHANGED mainHidden
           ELSE /\ mainHidden' = TRUE
                /\ restores' = kept \cup {Restore("task", scrollMap[location])}
  /\ UNCHANGED <<route, location, scrollMap, scrollY, navs>>

\* tryRestore(attempts) after its timeout, in its animation frame: jump, then wait for
\* the next attempt or request the last frame
RestoreAttempt(r) ==
  /\ route = "scroll" /\ r \in restores /\ r.pc \in {"start", "wait"}
  /\ scrollY' = r.target
  /\ restores' = (restores \ {r}) \cup
       {IF r.attempts > 0 THEN [r EXCEPT !.pc = "wait", !.attempts = r.attempts - 1]
                          ELSE [r EXCEPT !.pc = "reveal"]}
  /\ UNCHANGED <<route, location, scrollMap, mainHidden, navTask, navs>>

\* The last animation frame: the content is shown again
RestoreReveal(r) ==
  /\ route = "scroll" /\ r \in restores /\ r.pc = "reveal"
  /\ mainHidden' = FALSE
  /\ restores' = restores \ {r}
  /\ UNCHANGED <<route, location, scrollMap, scrollY, navTask, navs>>

(***************************************************************************)
(* Specifications.  Spec is the application: one of its pages is mounted   *)
(* and its handlers and tasks run.  SpecEngine is the engine on its own.   *)
(***************************************************************************)
\* A step of one page, or of the engine, leaves the others as they are
OnPost(A) == A /\ UNCHANGED <<feedVars, consensusVars, engineVars, workerVars, accountVars,
  toastVars, scrollVars>>

OnFeed(A) == A /\ UNCHANGED <<postVars, consensusVars, engineVars, workerVars, accountVars,
  toastVars, scrollVars>>

OnConsensus(A) == A /\ UNCHANGED <<postVars, feedVars, engineVars, workerVars, accountVars,
  toastVars, scrollVars>>

OnEngine(A) == A /\ UNCHANGED <<postVars, feedVars, consensusVars, workerVars, accountVars,
  toastVars, scrollVars>>

OnWorker(A) == A /\ UNCHANGED <<postVars, feedVars, consensusVars, engineVars, accountVars,
  toastVars, scrollVars>>

OnLayout(A) == A /\ UNCHANGED <<postVars, feedVars, consensusVars, engineVars, workerVars,
  toastVars, scrollVars>>

OnToast(A) == A /\ UNCHANGED <<postVars, feedVars, consensusVars, engineVars, workerVars,
  accountVars, scrollVars>>

OnScrolling(A) == A /\ UNCHANGED <<postVars, feedVars, consensusVars, engineVars, workerVars,
  accountVars, toastVars>>

Init ==
  /\ route \in Routes
  /\ PostInit
  /\ FeedInit
  /\ ConsensusInit
  /\ EngineInit
  /\ WorkerInit
  /\ LayoutInit
  /\ ToastInit
  /\ ScrollInit

Next ==
  \/ OnPost(LoadPost)
  \/ OnPost(LoadExample)
  \/ OnPost(LoadPostFailed)
  \/ \E m \in CommentSortModes : OnPost(SetCommentSortMode(m))
  \/ \E i \in 1..(Cardinality(Uris) + 1) : OnPost(OnDownvote(i))
  \/ \E i \in 1..(Cardinality(Uris) + 1) : OnPost(OnUndoDownvote(i))
  \/ OnPost(HandleReply)
  \/ \E append \in BOOLEAN : OnFeed(loadFeed(append))
  \/ \E m \in SortModes : OnFeed(SetSortMode(m))
  \/ OnFeed(FetchStart)
  \/ \E ok \in BOOLEAN : OnFeed(FetchDone(ok))
  \/ OnFeed(SortStart)
  \/ OnFeed(SortFinish)
  \/ \E id \in ClickedIds, value \in VoteValues : OnConsensus(vote(id, value))
  \/ \E ok \in BOOLEAN : OnConsensus(AnalyzeDone(ok))
  \/ OnConsensus(addStatement)

Spec == Init /\ [][Next]_vars

InitEngine ==
  /\ route \in Harnesses
  /\ PostInit
  /\ FeedInit
  /\ ConsensusInit
  /\ EngineInit
  /\ WorkerInit
  /\ LayoutInit
  /\ ToastInit
  /\ ScrollInit

NextEngine ==
  \/ \E strategy \in SortModes : OnEngine(RankCall(strategy))
  \/ \E u \in Users, s \in StatementNames, v \in VoteValues : OnEngine(CastVote(u, s, v))
  \/ OnEngine(AnalyzeEmpty)

SpecEngine == InitEngine /\ [][NextEngine]_vars

\* The consensus page, and the analyzer it calls on the votes of many participants
InitConsensus ==
  /\ route \in {"consensus", "analysis"}
  /\ PostInit
  /\ FeedInit
  /\ ConsensusInit
  /\ EngineInit
  /\ WorkerInit
  /\ LayoutInit
  /\ ToastInit
  /\ ScrollInit

NextConsensus ==
  \/ \E id \in ClickedIds, value \in VoteValues : OnConsensus(vote(id, value))
  \/ \E ok \in BOOLEAN : OnConsensus(AnalyzeDone(ok))
  \/ OnConsensus(addStatement)
  \/ \E u \in Users, s \in StatementNames, v \in VoteValues : OnEngine(CastVote(u, s, v))
  \/ OnEngine(AnalyzeEmpty)

SpecConsensus == InitConsensus /\ [][NextConsensus]_vars

\* The feed page with its seen posts; the sort stays on its first mode
InitSeen ==
  /\ route = "feed"
  /\ PostInit
  /\ SeenFeedInit
  /\ ConsensusInit
  /\ EngineInit
  /\ WorkerInit
  /\ LayoutInit
  /\ ToastInit
  /\ ScrollInit

NextSeen ==
  \/ \E append \in BOOLEAN : OnFeed(loadFeed(append))
  \/ OnFeed(FetchStart)
  \/ \E ok \in BOOLEAN : OnFeed(FetchDone(ok))
  \/ OnFeed(SortStart)
  \/ OnFeed(SortFinish)
  \/ OnFeed(ToggleHideSeen)
  \/ \E i \in 1..MaxFeed, stored \in BOOLEAN : OnFeed(markSeen(i, stored))

SpecSeen == InitSeen /\ [][NextSeen]_vars

\* The account menu of the layout
InitLayout ==
  /\ route = "layout"
  /\ PostInit
  /\ FeedInit
  /\ ConsensusInit
  /\ EngineInit
  /\ WorkerInit
  /\ LayoutInit
  /\ ToastInit
  /\ ScrollInit

NextLayout ==
  \/ OnLayout(ToggleAccountMenu)
  \/ \E did \in Dids, restored \in BOOLEAN, profiled \in BOOLEAN :
       OnLayout(onSwitchAccount(did, restored, profiled))
  \/ OnLayout(LogoutStart)
  \/ \E restored \in BOOLEAN, profiled \in BOOLEAN : OnLayout(LogoutDone(restored, profiled))

SpecLayout == InitLayout /\ [][NextLayout]_vars

\* The global toast of the layout
InitToast ==
  /\ route = "toast"
  /\ PostInit
  /\ FeedInit
  /\ ConsensusInit
  /\ EngineInit
  /\ WorkerInit
  /\ LayoutInit
  /\ ToastInit
  /\ ScrollInit

ToastClick ==
  \/ \E stored \in BOOLEAN : OnToast(CycleCardView(stored))
  \/ \E stored \in BOOLEAN : OnToast(CycleNsfw(stored))
  \/ OnToast(ToggleMediaOnly)

NextToast ==
  \/ ToastClick
  \/ OnToast(ToastTaskRun)
  \/ OnToast(ToastTimerFire)
  \/ OnToast(ToastTick)

\* The task runs, the timer fires and time passes; nobody has to click
SpecToast ==
  /\ InitToast /\ [][NextToast]_vars
  /\ WF_vars(OnToast(ToastTaskRun))
  /\ WF_vars(OnToast(ToastTimerFire))
  /\ WF_vars(OnToast(ToastTick))

\* Scroll position preservation of the layout
InitScroll ==
  /\ route = "scroll"
  /\ PostInit
  /\ FeedInit
  /\ ConsensusInit
  /\ EngineInit
  /\ WorkerInit
  /\ LayoutInit
  /\ ToastInit
  /\ ScrollInit

RestoreStep ==
  \E r \in restores :
    \/ OnScrolling(RestoreAttempt(r))
    \/ OnScrolling(RestoreReveal(r))

NextScroll ==
  \/ \E page \in Pages : OnScrolling(ClickLink(page))
  \/ \E page \in Pages, stateScroll \in ScrollYs \cup {NoState} :
       OnScrolling(onPopState(page, stateScroll))
  \/ OnScrolling(NavTaskRun)
  \/ RestoreStep

\* The task runs and timeouts and animation frames fire; nobody has to navigate
SpecScroll ==
  /\ InitScroll /\ [][NextScroll]_vars
  /\ WF_vars(OnScrolling(NavTaskRun))
  /\ WF_vars(RestoreStep)

\* The service worker
InitWorker ==
  /\ route = "worker"
  /\ PostInit
  /\ FeedInit
  /\ ConsensusInit
  /\ EngineInit
  /\ WorkerInit
  /\ LayoutInit
  /\ ToastInit
  /\ ScrollInit

NextWorker ==
  \/ \E request \in Requests, net \in NetOutcomes : OnWorker(OnFetch(request, net))
  \/ OnWorker(Tick)

SpecWorker == InitWorker /\ [][NextWorker]_vars

(***************************************************************************)
(* Properties.                                                             *)
(***************************************************************************)
Min(a, b) == IF a < b THEN a ELSE b

Reverse(seq) == [i \in 1..Len(seq) |-> seq[Len(seq) + 1 - i]]

Range(seq) == { seq[i] : i \in 1..Len(seq) }

Occurrences(x, seq) == Cardinality({ i \in 1..Len(seq) : seq[i] = x })

IsPermutation(s, t) ==
  /\ Len(s) = Len(t)
  /\ \A x \in Range(s) \cup Range(t) : Occurrences(x, s) = Occurrences(x, t)

\* The lists of siblings the thread view sorts: the replies with a post, level by level
RECURSIVE SiblingLists(_)
SiblingLists(nodes) ==
  IF nodes = <<>> THEN {}
  ELSE LET typed == SelectSeq(nodes, LAMBDA n : n.uri # "")
       IN  {typed} \cup UNION { SiblingLists(typed[i].replies) : i \in 1..Len(typed) }

\* The replies the thread view shows
DisplayedNodes(nodes) == UNION { Range(level) : level \in SiblingLists(nodes) }

\* Position of the reply with this URI in the flattened thread
ShownAt(uri) == CHOOSE i \in 1..Len(flattenedReplies) : flattenedReplies[i].uri = uri

\* Position of the item with this URI in a ranked list
RankedAt(uri, order) == CHOOSE i \in 1..Len(order) : order[i].uri = uri

\* The votes of a reply, as the engine's scores read them
VotesOfNode(n) ==
  [like_count |-> n.likeCount, downvote_count |-> DownvotesOf(replyDownvoteCounts, n.uri)]

\* No task of the feed page is running or due
Quiescent ==
  /\ fetchTask.pc = "idle" /\ ~fetchTask.dirty
  /\ sortTask.pc = "idle" /\ ~sortTask.dirty

\* C1: for every reply shown, getControversy is total * (1 - 2 |likes/total - 0.5|)
\* with total = likes + downvotes, which is 2 * min(likes, downvotes), and it is
\* 0 for a reply without votes.
C1_ControversyScore ==
  \A n \in DisplayedNodes(thread) :
    LET v == VotesOfNode(n)
    IN  /\ getControversy(n, replyDownvoteCounts)
             = Num(2 * Min(v.like_count, v.downvote_count))
        /\ getControversy(n, replyDownvoteCounts) = ControversialScore(v)
        /\ v.like_count + v.downvote_count = 0
             => getControversy(n, replyDownvoteCounts) = Num(0)

\* C1 witness: the thread is shown in controversial order and holds a reply with
\* 2 likes and 1 downvote, whose score is 2.
C1_Witness ==
  /\ commentSortMode = "controversial" /\ flattenedReplies # <<>>
  /\ \E n \in DisplayedNodes(thread) :
       /\ n.likeCount = 2 /\ DownvotesOf(replyDownvoteCounts, n.uri) = 1
       /\ getControversy(n, replyDownvoteCounts) = Num(2)

\* C2: among sibling replies, an evenly split reply scores at least as much as any
\* reply of the same volume and more than a skewed one, a larger even split scores
\* more than a smaller one, and the controversial order shows the higher one first
\* (10/10 before 19/1, 1000/1000 before 10/10).
C2_SplitBeatsSkew ==
  \A level \in SiblingLists(thread) :
    \A i, j \in 1..Len(level) :
      LET x == VotesOfNode(level[i])
          y == VotesOfNode(level[j])
          sx == getControversy(level[i], replyDownvoteCounts)
          sy == getControversy(level[j], replyDownvoteCounts)
          shown == commentSortMode = "controversial" /\ flattenedReplies # <<>>
          split == x.like_count = x.downvote_count
          same == x.like_count + x.downvote_count = y.like_count + y.downvote_count
      IN  /\ split /\ same => ~Less(sx, sy)
          /\ split /\ same /\ y.like_count # y.downvote_count
               => /\ Less(sy, sx)
                  /\ shown => ShownAt(level[i].uri) < ShownAt(level[j].uri)
          /\ split /\ y.like_count = y.downvote_count /\ x.like_count > y.like_count
               => /\ Less(sy, sx)
                  /\ shown => ShownAt(level[i].uri) < ShownAt(level[j].uri)

\* C2 witness: the replies 19/1, 10/10 and 1000/1000 are shown in controversial
\* order: 1000/1000 first, then 10/10, then 19/1.
C2_Witness ==
  /\ commentSortMode = "controversial"
  /\ \E e \in Examples : thread = e.thread /\ replyDownvoteCounts = e.counts
  /\ Len(flattenedReplies) = 3
  /\ flattenedReplies[1].uri = "c" /\ flattenedReplies[2].uri = "b"
  /\ flattenedReplies[3].uri = "a"

\* C3: sorting the output of a sort again, with the same mode or strategy and the
\* same counts, gives the same order: for sortNodes on every list of siblings and
\* for the feed's sorts on the sort task's items.
C3_SortIdempotent ==
  /\ \A level \in SiblingLists(thread), m \in CommentSortModes :
       sortNodes(sortNodes(level, m, replyDownvoteCounts), m, replyDownvoteCounts)
         = sortNodes(level, m, replyDownvoteCounts)
  /\ \A s \in Strategies :
       /\ ~rank(sortTask.sortable, s).rejected
       /\ rank(rank(sortTask.sortable, s).order, s) = rank(sortTask.sortable, s)
  /\ \A m \in SortModes :
       SortSwitch(m, SortSwitch(m, sortTask.sortable)) = SortSwitch(m, sortTask.sortable)

\* C3 witness: the thread is shown in best order, and the sort moved the second of
\* two sibling replies to the front.
C3_Witness ==
  /\ commentSortMode = "best" /\ flattenedReplies # <<>>
  /\ \E level \in SiblingLists(thread) :
       /\ Len(level) = 2
       /\ sortNodes(level, "best", replyDownvoteCounts) = <<level[2], level[1]>>

\* C4: in newest order the thread view does not depend on the order the replies come
\* in: the thread with its replies reversed is shown the same.
C4_NewestIgnoresInputOrder ==
  (commentSortMode = "newest" /\ ~loading /\ postFound)
    => Render(loading, postFound, Reverse(thread), "newest", replyDownvoteCounts)
         = flattenedReplies

\* C5: once the feed's tasks have run, the displayed list holds each filtered feed
\* item exactly once.
C5_DisplayIsPermutation ==
  (route = "feed" /\ Quiescent)
    => IsPermutation(sortedDisplayItems, FilterSeen(feedItems, hideSeenPosts, seenPosts))

C7_WilsonMonotone ==
  \A i, j \in 1..Len(engItems) :
    LET x == engItems[i]
        y == engItems[j]
        ranked == engStrategy = "wilson" /\ ~engResult.rejected
    IN  /\ (x.downvote_count = y.downvote_count /\ x.like_count = y.like_count + 1)
             => /\ WilsonLo(x.like_count, x.downvote_count)
                     >= WilsonHi(y.like_count, y.downvote_count)
                /\ (ranked /\ WilsonCompare(x, y) # 0)
                     => RankedAt(x.uri, engResult.order) < RankedAt(y.uri, engResult.order)
        /\ (x.like_count = y.like_count /\ x.downvote_count = y.downvote_count + 1)
             => /\ WilsonHi(x.like_count, x.downvote_count)
                     <= WilsonLo(y.like_count, y.downvote_count)
                /\ (ranked /\ WilsonCompare(x, y) # 0)
                     => RankedAt(y.uri, engResult.order) < RankedAt(x.uri, engResult.order)

\* C7 witness: rank by wilson was called on <<a, b>> where b has one more like than a
\* and the same downvotes, and b came out first.
C7_Witness ==
  /\ engStrategy = "wilson" /\ Len(engItems) = 2
  /\ engItems[1].uri = "a" /\ engItems[2].uri = "b"
  /\ engItems[2].like_count = engItems[1].like_count + 1
  /\ engItems[2].downvote_count = engItems[1].downvote_count
  /\ engItems[1].downvote_count > 0
  /\ engResult.order = <<engItems[2], engItems[1]>>

\* C8: an order labelled Best is in descending order of the Wilson lower bound: the
\* thread view in mode 'best' never shows a sibling reply of lower Wilson score
\* before one of higher score, and neither does the feed in mode 'wilson'.
C8_BestIsWilson ==
  /\ (commentSortMode = "best" /\ flattenedReplies # <<>>)
       => \A level \in SiblingLists(thread) :
            \A i, j \in 1..Len(level) :
              LET x == VotesOfNode(level[i])
                  y == VotesOfNode(level[j])
              IN  (/\ WilsonInRange(x.like_count, x.downvote_count)
                   /\ WilsonInRange(y.like_count, y.downvote_count)
                   /\ ShownAt(level[i].uri) < ShownAt(level[j].uri))
                    => WilsonCompare(x, y) >= 0
  /\ (route = "feed" /\ Quiescent /\ sortMode = "wilson")
       => \A i, j \in 1..Len(sortedDisplayItems) :
            i < j => WilsonCompare(Sortable(sortedDisplayItems, downvoteCounts)[i],
                                   Sortable(sortedDisplayItems, downvoteCounts)[j]) >= 0

\* C9: every score is a finite number, and the floors hold: a reply or item without
\* votes has controversial score 0 and Wilson score 0, a statement without agree and
\* disagree votes has agreement ratio 0 and divisiveness 0.
C9_ScoresFinite ==
  /\ \A n \in DisplayedNodes(thread) :
       /\ IsFinite(getScore(n, replyDownvoteCounts))
       /\ IsFinite(getControversy(n, replyDownvoteCounts))
       /\ VotesOfNode(n).like_count + VotesOfNode(n).downvote_count = 0
            => getControversy(n, replyDownvoteCounts) = Num(0)
  /\ \A i \in 1..Len(sortTask.sortable) :
       LET x == sortTask.sortable[i]
       IN  /\ IsFinite(ControversialScore(x))
           /\ x.like_count + x.downvote_count = 0
                => /\ ControversialScore(x) = Num(0)
                   /\ WilsonLo(x.like_count, x.downvote_count) = 0
                   /\ WilsonHi(x.like_count, x.downvote_count) = 0
  /\ result # <<>>
       => \A s \in DOMAIN result[1].statements :
            LET r == result[1].statements[s]
            IN  /\ IsFinite(r.agreementRatio) /\ IsFinite(r.divisiveness)
                /\ r.agreeCount + r.disagreeCount = 0
                     => r.agreementRatio = Num(0) /\ r.divisiveness = Num(0)

\* C9 witness: the thread is shown in controversial order and holds a reply nobody
\* voted on, next to one with votes.
C9_Witness ==
  /\ commentSortMode = "controversial" /\ flattenedReplies # <<>>
  /\ \E n \in DisplayedNodes(thread) :
       n.likeCount = 0 /\ DownvotesOf(replyDownvoteCounts, n.uri) = 0
  /\ \E n \in DisplayedNodes(thread) :
       n.likeCount > 0 /\ DownvotesOf(replyDownvoteCounts, n.uri) > 0

\* The value of the last event of participant u on statement s
LastVote(u, s) ==
  LET at == { i \in 1..Len(voteEvents) :
                voteEvents[i].user_id = u /\ voteEvents[i].statement_id = s }
  IN  voteEvents[CHOOSE i \in at : \A k \in at : k <= i].value

\* The participants whose vote on statement s is v
Voters(s, v) ==
  { u \in { voteEvents[i].user_id : i \in 1..Len(voteEvents) } :
      /\ \E i \in 1..Len(voteEvents) :
           voteEvents[i].user_id = u /\ voteEvents[i].statement_id = s
      /\ LastVote(u, s) = v }

\* C10: for every statement with a vote, the counts are the numbers of participants
\* whose vote is +1, -1 and 0; agreement_ratio is agree / (agree + disagree) and
\* divisiveness is 1 - 2 |agreement_ratio - 0.5|, both 0 when agree + disagree = 0
\* and both in [0, 1]; they do not depend on the pass votes; 6 agree, 2 disagree
\* and 2 or more pass give 0.75 and 0.5.
C10_StatementStatistics ==
  \A s \in { voteEvents[i].statement_id : i \in 1..Len(voteEvents) } :
    LET agree == Cardinality(Voters(s, 1))
        disagree == Cardinality(Voters(s, 0 - 1))
        pass == Cardinality(Voters(s, 0))
    IN  /\ s \in DOMAIN analysis.statements
        /\ LET r == analysis.statements[s]
           IN  /\ r.agreeCount = agree /\ r.disagreeCount = disagree /\ r.passCount = pass
               /\ IsFinite(r.agreementRatio) /\ IsFinite(r.divisiveness)
               /\ r.agreementRatio.num * (agree + disagree) = agree * r.agreementRatio.den
               /\ r.divisiveness.num * (agree + disagree)
                    = 2 * Min(agree, disagree) * r.divisiveness.den
               /\ agree + disagree = 0
                    => r.agreementRatio = Num(0) /\ r.divisiveness = Num(0)
               /\ 0 <= r.agreementRatio.num /\ r.agreementRatio.num <= r.agreementRatio.den
               /\ 0 <= r.divisiveness.num /\ r.divisiveness.num <= r.divisiveness.den
               /\ (agree = 6 /\ disagree = 2)
                    => /\ r.agreementRatio = [num |-> 3, den |-> 4]
                       /\ r.divisiveness = [num |-> 1, den |-> 2]

\* C10 witness: ten participants voted 6 agree, 2 disagree, 2 pass on a statement,
\* one more passed on it, and the analysis gives 0.75 and 0.5.
C10_Witness ==
  /\ Len(voteEvents) = Len(FixtureVotes) + 1
  /\ voteEvents[Len(voteEvents)].value = 0
  /\ "s1" \in DOMAIN analysis.statements
  /\ analysis.statements["s1"].agreeCount = 6
  /\ analysis.statements["s1"].disagreeCount = 2
  /\ analysis.statements["s1"].passCount = 3
  /\ analysis.statements["s1"].agreementRatio = [num |-> 3, den |-> 4]
  /\ analysis.statements["s1"].divisiveness = [num |-> 1, den |-> 2]

\* The participants of the vote events received
EventParticipants == { voteEvents[i].user_id : i \in 1..Len(voteEvents) }

\* C11: for a non-empty vote set the clusters of analyzeConsensus partition the
\* participants: every participant is a member of exactly one cluster, the union
\* of the member sets is the participant set, and cluster_count, the number of
\* clusters returned, is at least 1 and at most the number of participants.
C11_ClustersPartition ==
  voteEvents # <<>>
    => /\ analysis.clusterCount = Len(analysis.clusters)
       /\ analysis.clusterCount >= 1
       /\ analysis.clusterCount <= Cardinality(EventParticipants)
       /\ analysis.totalParticipants = Cardinality(EventParticipants)
       /\ \A u \in EventParticipants :
            Cardinality({ j \in 1..Len(analysis.clusters) :
                            u \in analysis.clusters[j].memberIds }) = 1
       /\ UNION { analysis.clusters[j].memberIds : j \in 1..Len(analysis.clusters) }
            = EventParticipants
       /\ \A j \in 1..Len(analysis.clusters) :
            /\ analysis.clusters[j].id = j - 1
            /\ analysis.clusters[j].memberCount
                 = Cardinality(analysis.clusters[j].memberIds)

\* C11 witness: eleven participants were grouped into three clusters, each with a
\* member, after a vote event arrived from a new participant.
C11_Witness ==
  /\ Len(voteEvents) > Len(FixtureVotes)
  /\ Cardinality(EventParticipants) = 11
  /\ analysis.clusterCount = 3
  /\ \A j \in 1..3 : analysis.clusters[j].memberIds # {}

\* The (participant, statement) pairs of the vote events received
EventCells ==
  { <<voteEvents[i].user_id, voteEvents[i].statement_id>> : i \in 1..Len(voteEvents) }

\* The vote matrix holds one vote per pair with an event, the value of its last event
MatrixIsLastWrite ==
  /\ DOMAIN VoteMatrix(voteEvents) = EventCells
  /\ \A c \in EventCells : VoteMatrix(voteEvents)[c] = LastVote(c[1], c[2])
  /\ \A s \in { c[2] : c \in EventCells } :
       /\ analysis.statements[s].totalVotes = Cardinality({ c \in EventCells : c[2] = s })
       /\ analysis.statements[s].agreeCount
            = Cardinality({ c \in EventCells : c[2] = s /\ LastVote(c[1], c[2]) = 1 })

\* The statements that carry a vote of the user
Voted(stmts) == { i \in 1..Len(stmts) : stmts[i].myVote # <<>> }

\* Every analysis submitted holds at most one vote per statement, all of the user
SubmittedOncePerStatement ==
  \A k \in 1..Len(analyses) :
    \A i, j \in 1..Len(analyses[k]) :
      /\ analyses[k][i].user_id = SessionUser
      /\ analyses[k][i].statement_id = analyses[k][j].statement_id => i = j

\* A click step: one statement's vote changes, to the clicked value or to none, and
\* the votes the statements then carry are what is submitted
ClickStep ==
  LET clicked == { i \in 1..Len(statements) : statements'[i] # statements[i] }
  IN  /\ Cardinality(clicked) = 1
      /\ \A i \in clicked :
           /\ statements'[i].id = statements[i].id
           /\ statements'[i].myVote \in {<<>>} \cup { <<v>> : v \in VoteValues }
      /\ IF Voted(statements') = {} THEN analyses' = analyses
         ELSE /\ Len(analyses') = Len(analyses) + 1
              /\ SubSeq(analyses', 1, Len(analyses)) = analyses
              /\ LET sent == analyses'[Len(analyses')]
                 IN  /\ Len(sent) = Cardinality(Voted(statements'))
                     /\ \A i \in Voted(statements') :
                          \E k \in 1..Len(sent) :
                            sent[k] = VoteEvent(SessionUser, statements'[i].id,
                                                statements'[i].myVote[1])

\* C12: the vote matrix holds at most one vote per (participant, statement) pair,
\* the value of the last event received for the pair; on the consensus page every
\* click changes the vote of one statement only, to the clicked value or to none,
\* nothing but a click submits an analysis, and what a click submits is exactly one
\* vote per statement that carries a vote, with that vote's value.
C12_LastVoteWins ==
  /\ [](MatrixIsLastWrite /\ SubmittedOncePerStatement)
  /\ [][(Len(statements') = Len(statements)
          /\ (statements' # statements \/ Len(analyses') > Len(analyses)))
         => ClickStep]_vars

\* C12 witness: on the consensus page two statements were voted on and the vote on
\* statement 1 was then taken back by clicking its value again: statement 2 alone
\* carries a vote and the analysis submitted last holds that vote only.
C12_Witness ==
  /\ route = "consensus" /\ Len(analyses) = 2
  /\ Len(analyses[1]) = 2
  /\ statements[1].myVote = <<>> /\ statements[2].myVote = <<0 - 1>>
  /\ analyses[2] = <<VoteEvent(SessionUser, "2", 0 - 1)>>

\* C13: analyzeConsensus on an empty vote list is not rejected and returns
\* total_participants = 0, no statements, cluster_count = 0 and no clusters.
C13_EmptyAnalysis ==
  voteEvents = <<>>
    => /\ ~analysis.rejected
       /\ analysis.totalParticipants = 0
       /\ DOMAIN analysis.statements = {}
       /\ analysis.clusterCount = 0
       /\ analysis.clusters = <<>>
       /\ analysis = analyzeConsensus(<<>>)

\* C13 witness: the analyzer was called on an empty vote list, in the harness that
\* also calls it on the votes of ten participants.
C13_Witness ==
  /\ route = "analysis" /\ voteEvents = <<>>
  /\ analysis.totalParticipants = 0 /\ analysis.clusterCount = 0
  /\ analysis.clusters = <<>>

\* The last fetch event was a GET request
HandledGet == handled.request # <<>> /\ handled.request[1].method = "GET"

\* C14: a GET request to an API host is answered network-first: the network is
\* always asked; when the fetch resolves its response is the answer, and when that
\* response is ok the API cache then holds it under the request; only when the fetch
\* fails is the answer the cached response, or a 503 response with the JSON body
\* {error: 'Offline'} when none is cached; an answer from the cache is never given
\* while the network is reachable.
C14_ApiNetworkFirst ==
  (HandledGet /\ IsApiHost(handled.request[1].url))
    => /\ handled.fetched
       /\ handled.net # "down"
            => /\ handled.source = "network"
               /\ handled.response = <<NetResponse(handled.net, handled.response[1].at)>>
               /\ handled.response[1].at <= clock
       /\ handled.net = "ok"
            => /\ handled.request[1].url \in DOMAIN caches[API_CACHE]
               /\ caches[API_CACHE][handled.request[1].url] = handled.response[1]
       /\ (handled.net = "down" /\ handled.matched # <<>>)
            => handled.source = "cache" /\ handled.response = handled.matched
       /\ (handled.net = "down" /\ handled.matched = <<>>)
            => /\ handled.source = "offline"
               /\ handled.response[1].status = 503
               /\ handled.response[1].body = "OfflineJson"
       /\ handled.source = "cache" => handled.net = "down"

\* C14 witness: the API request was answered from the network and cached, and it
\* was then asked again with the network down and answered with the cached copy.
C14_Witness ==
  /\ HandledGet /\ handled.request[1].url = ApiUrl
  /\ handled.net = "down" /\ handled.fetched
  /\ handled.source = "cache"
  /\ handled.response = <<caches[API_CACHE][ApiUrl]>>

\* C15: the image cache never holds more than MAX_CACHED_IMAGES entries.
C15_ImageCacheBounded ==
  Cardinality(DOMAIN caches[IMAGE_CACHE]) <= MAX_CACHED_IMAGES

\* C16: an API request is never answered with a cached response stored more than
\* API_MAX_AGE_MS ago.
C16_ApiCacheMaxAge ==
  (HandledGet /\ IsApiHost(handled.request[1].url) /\ handled.source = "cache")
    => clock - handled.response[1].at <= API_MAX_AGE_MS

\* C17: a GET request for an image or video, by its extension or by the host
\* cdn.bsky.app, is answered cache-first against the image cache: when a response
\* for it is cached the answer is that response and the network is not asked, and
\* an ok response fetched for it is stored in the image cache.
C17_MediaCacheFirst ==
  (HandledGet /\ IsMedia(handled.request[1].url))
    => /\ handled.matched # <<>>
            => ~handled.fetched /\ handled.response = handled.matched
       /\ (handled.fetched /\ handled.net = "ok")
            => /\ handled.request[1].url \in DOMAIN caches[IMAGE_CACHE]
               /\ caches[IMAGE_CACHE][handled.request[1].url] = handled.response[1]

\* What a markSeen(uri) call must do to the seen set: the URI is in it afterwards, a
\* URI already seen changes nothing, a new URI is added as the newest entry, and the
\* oldest entry is the one dropped, only when the set was at the cap
MarkedSeen(uri) ==
  /\ InSeq(uri, seenPosts')
  /\ Len(seenPosts') <= SeenCap
  /\ InSeq(uri, seenPosts) => seenPosts' = seenPosts
  /\ ~InSeq(uri, seenPosts)
       => LET dropped == IF Len(seenPosts) >= SeenCap THEN Len(seenPosts) + 1 - SeenCap
                         ELSE 0
          IN  seenPosts' = SubSeq(seenPosts, dropped + 1, Len(seenPosts)) \o <<uri>>

\* C18, with the persisted value as the code keeps it: the seen set never holds more
\* than 2000 URIs and none twice; a markSeen call leaves the marked URI in the set,
\* changes nothing when it was seen already, and beyond the cap drops the oldest
\* entries; and when localStorage.setItem did not throw, the value stored under
\* 'purplesky-seen-posts' is the set in memory.
C18_SeenCapped ==
  /\ [](Len(seenPosts) <= SeenCap /\ Cardinality(Range(seenPosts)) = Len(seenPosts))
  /\ [][\A i \in 1..MaxFeed, stored \in BOOLEAN :
          markSeen(i, stored)
            => /\ MarkedSeen(displayItems[i].uri)
               /\ stored => seenStorage' = seenPosts']_vars

\* C18 witness: with 2000 seen posts stored, post a was marked as seen: the set still
\* holds 2000 URIs, a is the newest, the oldest one was dropped, and the set was stored.
C18_Witness ==
  /\ Len(seenPosts) = SeenCap
  /\ seenPosts[SeenCap] = "a"
  /\ seenPosts[1] = StoredSeen[2]
  /\ seenStorage = seenPosts

\* C18 as stated: the value stored under 'purplesky-seen-posts' is the set in memory.
C18_PersistedIsMemory == seenStorage = seenPosts

\* C19: once the feed's tasks have run, with hiding on no displayed item is a seen
\* post and every feed item that is not a seen post is displayed; with hiding off
\* every feed item is displayed.
C19_SeenHidden ==
  (route = "feed" /\ Quiescent)
    => /\ hideSeenPosts
            => /\ \A k \in 1..Len(displayItems) : ~InSeq(displayItems[k].uri, seenPosts)
               /\ \A k \in 1..Len(feedItems) :
                    ~InSeq(feedItems[k].uri, seenPosts)
                      => feedItems[k] \in Range(displayItems)
       /\ ~hideSeenPosts
            => \A k \in 1..Len(feedItems) : feedItems[k] \in Range(displayItems)

\* C20: when onLogout completes for the current account D, the store does not show D
\* as the logged-in account: either store.session.did is the next remaining account
\* with isLoggedIn true, or did, handle and avatar are null and isLoggedIn is false;
\* also when restoring the next account's session fails.  And the store never shows
\* as logged in an account whose session was ended.
C20_LogoutLeavesAccount ==
  /\ [](session.isLoggedIn => \E i \in 1..Len(accounts) : accounts[i] = session.did)
  /\ [][(logout.pc = "await" /\ logout'.pc = "idle")
         => /\ ~(session'.did = logout.currentDid /\ session'.isLoggedIn)
            /\ \/ /\ accounts' # <<>>
                  /\ session'.did = accounts'[1] /\ session'.isLoggedIn
               \/ /\ accounts' = <<>>
                  /\ session' = LoggedOut]_vars

\* C21: the global toast auto-dismisses: every toastMessage that is not null is
\* eventually set back to null, and it is set back to null TOAST_MS after the last
\* change of the message, never earlier: the timer of an earlier message does not
\* clear a newer message.
C21_ToastAutoDismiss ==
  /\ (toastMessage # "") ~> (toastMessage = "")
  /\ [][(toastMessage # "" /\ toastMessage' = "") => toastAge = TOAST_MS]_vars

\* C22: whenever the layout has hidden #main-content for scroll restoration, in the
\* popstate handler or in the navigation task, the content is eventually shown again,
\* under every interleaving of navigations, task cleanups and popstate events.
C22_ContentRevealed == mainHidden ~> ~mainHidden

=============================================================================
